---- MODULE Spec2Model ----
(***************************************************************************)
(* Model of the quantitative analysis engine of stock-analyzer:            *)
(* the repository tables it reads and writes, the alert engine's scans,    *)
(* the technical analyzer and the statement readers.                       *)
(*                                                                         *)
(* Numbers.  Prices are positive integers (one unit = one price tick).     *)
(* Exponential moving averages are kept in fixed point with Scale units    *)
(* per tick and floor rounding; ratios whose value is compared with a      *)
(* threshold (RSI, day change) are kept as exact fractions [num, den] and  *)
(* compared by cross-multiplication.  Figures of financial statements are  *)
(* decimals kept in hundredths.  Products and quotients of floats are      *)
(* taken exactly.  An optional value is the empty tuple (Python's None)    *)
(* or a one-element tuple <<v>>.                                           *)
(***************************************************************************)
EXTENDS Integers, Sequences, FiniteSets, TLC

VARIABLES
    daily_quote,    \* table daily_quote: [symbol -> [trade_date -> row]]
    watchlist,      \* table watchlist, in ORDER BY added_at DESC order
    alert,          \* table alert, in insertion (id) order
    today,          \* date.today()
    now,            \* number of scans started so far (clock of datetime.now())
    scan,           \* outcome of the most recent AlertEngine.check_all call
    report,         \* outcome of the most recent TechnicalAnalyzer.analyze call
    financial,      \* table financial: [symbol -> [report_date -> row]]
    stock_info,     \* table stock_info: [symbol -> row or None]
    fundamental,    \* outcome of the most recent FundamentalAnalyzer.analyze call
    screened,       \* outcome of the most recent StockScreener.screen call
    _strategies,    \* class attribute StrategyRegistry._strategies
    held,           \* what a caller of StrategyRegistry holds of its returns
    account,        \* table accounts: [id -> row]
    transaction,    \* table transactions, in insertion (id) order
    position,       \* outcome of the most recent PositionService call
    scheduler       \* a DataScheduler and the BackgroundSchedulers it created

vars == <<daily_quote, watchlist, alert, today, now, scan, report,
          financial, stock_info, fundamental, screened,
          _strategies, held, account, transaction, position, scheduler>>

None == <<>>
Some(v) == <<v>>
Val(o) == o[1]

\* exact fractions; NaN is the not-a-number value of float arithmetic
Frac(n, d) == [nan |-> FALSE, num |-> n, den |-> d]
NaN == [nan |-> TRUE, num |-> 0, den |-> 0]

Symbols == {"A", "B"}

-----------------------------------------------------------------------------
(* Bounds of the model *)

Scale == 10000          \* fixed-point units per price tick
Base == 200             \* close of the most recent bar of a generated series
MaxScans == 2           \* check_all calls per behaviour
MaxDays == 1            \* days that pass per behaviour
FirstDay == 70          \* date.today() in the initial state

-----------------------------------------------------------------------------
(* Small arithmetic helpers *)

Abs(x) == IF x < 0 THEN -x ELSE x
Max2(x, y) == IF x >= y THEN x ELSE y
Min2(x, y) == IF x <= y THEN x ELSE y

RECURSIVE SumSeq(_)
SumSeq(s) ==
    IF s = <<>> THEN 0
    ELSE IF Len(s) = 1 THEN s[1]
    ELSE SumSeq(SubSeq(s, 1, Len(s) \div 2))
         + SumSeq(SubSeq(s, Len(s) \div 2 + 1, Len(s)))

\* s[-k:] of Python / tail(k) of pandas
LastK(s, k) == IF Len(s) <= k THEN s ELSE SubSeq(s, Len(s) - k + 1, Len(s))

\* s[:-1] of Python / iloc[:-1] of pandas
DropLast(s) == IF s = <<>> THEN s ELSE SubSeq(s, 1, Len(s) - 1)

\* a sequence given by a rule, as the tuple of its entries
List(s) == SubSeq(s, 1, Len(s))

\* the positions of a sequence, in order
Indices(s) == List([i \in DOMAIN s |-> i])

RECURSIVE Flatten(_)
Flatten(ss) ==
    IF ss = <<>> THEN <<>>
    ELSE IF Len(ss) = 1 THEN ss[1]
    ELSE Flatten(SubSeq(ss, 1, Len(ss) \div 2))
         \o Flatten(SubSeq(ss, Len(ss) \div 2 + 1, Len(ss)))

-----------------------------------------------------------------------------
(* Repository: daily_quote and watchlist tables *)

\* Decimal(str(v)) if v else None
OptDecimal(v) == IF v = None \/ v = Some(0) THEN None ELSE v

DailyQuote(symbol, d, r) ==
    [symbol |-> symbol, trade_date |-> d, open |-> r.open, high |-> r.high,
     low |-> r.low, close |-> r.close, pre_close |-> OptDecimal(r.pre_close)]

\* The rows of a symbol with lo <= trade_date <= hi, in ascending trade_date order
RowsFrom(symbol, lo, hi) ==
    LET days == List([k \in 1..(hi - lo + 1) |-> lo + k - 1])
        dates == SelectSeq(days, LAMBDA d : d \in DOMAIN daily_quote[symbol])
    IN List([i \in DOMAIN dates |->
                DailyQuote(symbol, dates[i], daily_quote[symbol][dates[i]])])

MaxDate == FirstDay + MaxDays

\* SELECT * FROM daily_quote WHERE symbol = :symbol AND trade_date >= :start_date
\* ORDER BY trade_date ASC, with start_date = today - days
get_quotes(symbol, days) == RowsFrom(symbol, Max2(1, today - days), MaxDate)

\* INSERT OR REPLACE of every bar of the batch
save_quotes_rows(table, quotes) ==
    [d \in (DOMAIN table) \cup {quotes[i].trade_date : i \in DOMAIN quotes} |->
        IF \E i \in DOMAIN quotes : quotes[i].trade_date = d
        THEN LET i == CHOOSE j \in DOMAIN quotes :
                        /\ quotes[j].trade_date = d
                        /\ \A k \in DOMAIN quotes :
                               quotes[k].trade_date = d => k <= j
                 q == quotes[i]
             IN [open |-> q.open, high |-> q.high, low |-> q.low,
                 close |-> q.close, pre_close |-> OptDecimal(q.pre_close)]
        ELSE table[d]]

WatchlistItem(r) ==
    [symbol |-> r.symbol,
     alert_price_high |-> OptDecimal(r.alert_price_high),
     alert_price_low |-> OptDecimal(r.alert_price_low)]

\* SELECT * FROM watchlist ORDER BY added_at DESC
get_watchlist == List([i \in DOMAIN watchlist |-> WatchlistItem(watchlist[i])])

-----------------------------------------------------------------------------
(* Repository: financial and stock_info tables.  Amounts and ratios of a
   statement are decimals kept in hundredths (Cent units per 1.00); report
   dates are day numbers on the scale of today. *)

Cent == 100

\* a symbol without statements
NoStatements == [s \in Symbols |-> <<>>]

Financial(symbol, d, r) ==
    [symbol |-> symbol, report_date |-> d,
     revenue |-> OptDecimal(r.revenue), net_profit |-> OptDecimal(r.net_profit),
     total_assets |-> OptDecimal(r.total_assets),
     total_equity |-> OptDecimal(r.total_equity),
     roe |-> OptDecimal(r.roe), pe |-> OptDecimal(r.pe), pb |-> OptDecimal(r.pb),
     debt_ratio |-> OptDecimal(r.debt_ratio),
     gross_margin |-> OptDecimal(r.gross_margin)]

\* the dates of a set, the greatest first
Descending(S) ==
    List([i \in 1..Cardinality(S) |->
            CHOOSE d \in S : Cardinality({e \in S : e > d}) = i - 1])

\* SELECT * FROM financial WHERE symbol = :symbol AND report_date >= :start_date
\* ORDER BY report_date DESC, with start_date = today - years * 365
get_financials(symbol, years) ==
    LET start_date == today - years * 365
        dates == Descending({d \in DOMAIN financial[symbol] : d >= start_date})
    IN List([i \in DOMAIN dates |->
                Financial(symbol, dates[i], financial[symbol][dates[i]])])

\* INSERT OR REPLACE of every statement of the batch
save_financials_rows(table, financials) ==
    [d \in (DOMAIN table) \cup {financials[i].report_date : i \in DOMAIN financials} |->
        IF \E i \in DOMAIN financials : financials[i].report_date = d
        THEN LET i == CHOOSE j \in DOMAIN financials :
                        /\ financials[j].report_date = d
                        /\ \A k \in DOMAIN financials :
                               financials[k].report_date = d => k <= j
                 f == financials[i]
             IN [revenue |-> OptDecimal(f.revenue),
                 net_profit |-> OptDecimal(f.net_profit),
                 total_assets |-> OptDecimal(f.total_assets),
                 total_equity |-> OptDecimal(f.total_equity),
                 roe |-> OptDecimal(f.roe), pe |-> OptDecimal(f.pe),
                 pb |-> OptDecimal(f.pb),
                 debt_ratio |-> OptDecimal(f.debt_ratio),
                 gross_margin |-> OptDecimal(f.gross_margin)]
        ELSE table[d]]

\* every symbol listed on the A-share market
Listed == [s \in Symbols |-> Some([symbol |-> s, name |-> s, market |-> "A_STOCK"])]

\* SELECT * FROM stock_info WHERE symbol = :symbol
get_stock_info(symbol) == stock_info[symbol]

\* SELECT * FROM daily_quote WHERE symbol = :symbol ORDER BY trade_date DESC LIMIT 1
get_latest_quote(symbol) ==
    IF DOMAIN daily_quote[symbol] = {} THEN None
    ELSE LET d == CHOOSE e \in DOMAIN daily_quote[symbol] :
                      \A x \in DOMAIN daily_quote[symbol] : x <= e
         IN Some(DailyQuote(symbol, d, daily_quote[symbol][d]))

\* the strategies the class StrategyRegistry is created with
StrategyRegistry ==
    << [id |-> "value",
        params |-> [max_pe |-> 15, max_pb |-> 2, min_dividend_yield |-> 3]],
       [id |-> "growth",
        params |-> [min_revenue_growth |-> 20, min_profit_growth |-> 15,
                    min_roe |-> 10]],
       [id |-> "low_pe", params |-> [max_pe |-> 10]],
       [id |-> "momentum",
        params |-> [ma_period |-> 20, volume_multiplier |-> Frac(3, 2)]] >>

\* a caller that has not called the registry yet: no list, no strategy
NothingHeld == [list |-> None, strategy |-> None]

\* the tables accounts before any account is created, and a DataScheduler
\* after construction
NoAccounts == <<>>
NoScheduler == [current |-> None, created |-> <<>>, calls |-> 0, last |-> None]

-----------------------------------------------------------------------------
(* DailyQuote.change_pct: (close - pre_close) / pre_close * 100, None
   without a previous close *)

change_pct(q) ==
    IF q.pre_close = None THEN None
    ELSE Some(Frac((q.close - Val(q.pre_close)) * 100, Val(q.pre_close)))

-----------------------------------------------------------------------------
(* Indicator library *)

\* one step of Series.ewm(span, adjust=False).mean() on fixed-point values
EwmStep(prev, x, span) == ((span - 1) * prev + 2 * x) \div (span + 1)

MacdFast == 12
MacdSlow == 26
MacdSignal == 9

\* the recurrences after one more bar; st.i is the number of bars consumed
MacdStep(closes, st) ==
    LET x == closes[st.i + 1] * Scale
        ef == EwmStep(st.ef, x, MacdFast)
        es == EwmStep(st.es, x, MacdSlow)
        dif == ef - es
        dea == EwmStep(st.dea, dif, MacdSignal)
    IN [i |-> st.i + 1, ef |-> ef, es |-> es, dif |-> dif, dea |-> dea]

\* state st advanced to bar hi
RECURSIVE MacdFold(_, _, _)
MacdFold(closes, hi, st) ==
    IF st.i >= hi THEN st
    ELSE IF st.i + 1 = hi THEN MacdStep(closes, st)
    ELSE MacdFold(closes, hi, MacdFold(closes, (st.i + hi) \div 2, st))

Closes(df) == List([i \in DOMAIN df |-> df[i].close])

\* calc_macd with the histogram rounded down to a whole price tick
calc_macd_rounded(df) ==
    LET closes == Closes(df)
        x0 == closes[1] * Scale
        st == MacdFold(closes, Len(closes),
                       [i |-> 1, ef |-> x0, es |-> x0, dif |-> 0, dea |-> 0])
    IN [dif |-> st.dif, dea |-> st.dea,
        macd |-> (((st.dif - st.dea) * 2) \div Scale) * Scale]

\* calc_macd: DIF, DEA and the histogram (DIF - DEA) x 2 of the last bar
calc_macd(df) ==
    LET closes == Closes(df)
        x0 == closes[1] * Scale
        st == MacdFold(closes, Len(closes),
                       [i |-> 1, ef |-> x0, es |-> x0, dif |-> 0, dea |-> 0])
    IN [dif |-> st.dif, dea |-> st.dea, macd |-> (st.dif - st.dea) * 2]

\* MACDResult.is_golden_cross
is_golden_cross(m) == m.dif > m.dea /\ m.macd > 0

RsiPeriod == 14

\* closes.diff(), with the undefined first entry replaced by 0 as
\* delta.where(delta > 0, 0) and delta.where(delta < 0, 0) do
Delta(closes) ==
    List([i \in DOMAIN closes |-> IF i = 1 THEN 0 ELSE closes[i] - closes[i - 1]])

calc_rsi(df) ==
    LET delta == LastK(Delta(Closes(df)), RsiPeriod)
        gain == SumSeq([i \in DOMAIN delta |-> IF delta[i] > 0 THEN delta[i] ELSE 0])
        loss == SumSeq([i \in DOMAIN delta |-> IF delta[i] < 0 THEN -delta[i] ELSE 0])
    IN  \* rs = avg_gain / avg_loss ; rsi = 100 - 100 / (1 + rs)
        IF Len(df) < RsiPeriod THEN NaN
        ELSE IF loss = 0 /\ gain = 0 THEN NaN
        ELSE IF loss = 0 THEN Frac(100, 1)
        ELSE Frac(100 * gain, gain + loss)

\* comparisons of a fraction, or NaN, with an integer (NaN compares false)
FracGT(x, k) == ~x.nan /\ x.num > k * x.den
FracLT(x, k) == ~x.nan /\ x.num < k * x.den
FracGE(x, k) == ~x.nan /\ x.num >= k * x.den
FracLE(x, k) == ~x.nan /\ x.num <= k * x.den
FracAbs(x) == [x EXCEPT !.num = Abs(x.num)]

-----------------------------------------------------------------------------
(* Alert engine *)

VOLATILITY_THRESHOLD == 5
RSI_OVERBOUGHT_THRESHOLD == 80
RSI_OVERSOLD_THRESHOLD == 20
MacdMinBars == 26

Alert(symbol, alert_type, message) ==
    [symbol |-> symbol, alert_type |-> alert_type, message |-> message,
     triggered_at |-> now + 1, is_read |-> FALSE]

AlertEngine_quotes_to_dataframe(quotes) ==
    List([i \in DOMAIN quotes |->
            [open |-> quotes[i].open, high |-> quotes[i].high,
             low |-> quotes[i].low, close |-> quotes[i].close]])

_check_price_alerts(symbol, item, latest_quote) ==
    (IF item.alert_price_high # None /\ latest_quote.close >= Val(item.alert_price_high)
     THEN <<Alert(symbol, "PRICE_BREAK", "high")>> ELSE <<>>)
    \o
    (IF item.alert_price_low # None /\ latest_quote.close <= Val(item.alert_price_low)
     THEN <<Alert(symbol, "PRICE_BREAK", "low")>> ELSE <<>>)

_check_volatility_alert(symbol, latest_quote) ==
    IF change_pct(latest_quote) = None THEN <<>>
    ELSE IF FracGE(FracAbs(Val(change_pct(latest_quote))), VOLATILITY_THRESHOLD)
         THEN <<Alert(symbol, "ABNORMAL_VOLATILITY",
                      IF Val(change_pct(latest_quote)).num > 0 THEN "up" ELSE "down")>>
         ELSE <<>>

\* the check without the comparison with the previous bar
_check_macd_golden_cross_level(symbol, df) ==
    IF Len(df) < MacdMinBars THEN <<>>
    ELSE IF Len(DropLast(df)) >= MacdMinBars /\ is_golden_cross(calc_macd(df))
         THEN <<Alert(symbol, "MACD_GOLDEN_CROSS", "cross")>>
         ELSE <<>>

_check_macd_golden_cross(symbol, df) ==
    IF Len(df) < MacdMinBars THEN <<>>
    ELSE LET prev_df == DropLast(df) IN
         IF Len(prev_df) >= MacdMinBars
         THEN IF is_golden_cross(calc_macd(df)) /\ ~is_golden_cross(calc_macd(prev_df))
              THEN <<Alert(symbol, "MACD_GOLDEN_CROSS", "cross")>>
              ELSE <<>>
         ELSE <<>>

_check_rsi_alerts(symbol, df) ==
    IF Len(df) < RsiPeriod THEN <<>>
    ELSE IF FracGT(calc_rsi(df), RSI_OVERBOUGHT_THRESHOLD)
         THEN <<Alert(symbol, "RSI_OVERBOUGHT", "overbought")>>
         ELSE IF FracLT(calc_rsi(df), RSI_OVERSOLD_THRESHOLD)
              THEN <<Alert(symbol, "RSI_OVERSOLD", "oversold")>>
              ELSE <<>>

\* the price check carried out a second time
_check_item_on_twice(item, quotes) ==
    IF Len(quotes) < 2 THEN <<>>
    ELSE LET df == AlertEngine_quotes_to_dataframe(quotes)
             latest_quote == quotes[Len(quotes)]
         IN _check_price_alerts(item.symbol, item, latest_quote)
            \o _check_price_alerts(item.symbol, item, latest_quote)
            \o _check_volatility_alert(item.symbol, latest_quote)
            \o _check_macd_golden_cross(item.symbol, df)
            \o _check_rsi_alerts(item.symbol, df)

_check_item_on(item, quotes) ==
    IF Len(quotes) < 2 THEN <<>>
    ELSE LET df == AlertEngine_quotes_to_dataframe(quotes)
             latest_quote == quotes[Len(quotes)]
         IN _check_price_alerts(item.symbol, item, latest_quote)
            \o _check_volatility_alert(item.symbol, latest_quote)
            \o _check_macd_golden_cross(item.symbol, df)
            \o _check_rsi_alerts(item.symbol, df)

_check_item(item) == _check_item_on(item, get_quotes(item.symbol, 90))


\* the loop of check_all without its try/except: the first entry that raises
\* ends the loop
check_all_alerts_abort(fail) ==
    LET wl == get_watchlist
    IN Flatten([i \in DOMAIN wl |->
                   IF \E j \in 1..i : wl[j].symbol \in fail
                   THEN <<>> ELSE _check_item(wl[i])])

\* the list all_alerts of check_all.  fail: the watch-list entries whose
\* analysis raises
check_all_alerts(fail) ==
    LET wl == get_watchlist
    IN Flatten([i \in DOMAIN wl |->
                   IF wl[i].symbol \in fail THEN <<>> ELSE _check_item(wl[i])])

NoScan ==
    [watched |-> <<>>, failed |-> {}, raised |-> FALSE, returned |-> None]

\* check_all with the persistence isolated per alert: an alert whose
\* save_alert raises is skipped and the list is returned
check_all_isolated(fail, save_fail) ==
    /\ now < MaxScans
    /\ fail \subseteq {watchlist[i].symbol : i \in DOMAIN watchlist}
    /\ save_fail \in 0..Len(check_all_alerts(fail))
    /\ now' = now + 1
    /\ LET all_alerts == check_all_alerts(fail) IN
       /\ alert' = alert \o SubSeq(all_alerts, 1, save_fail - 1)
                          \o SubSeq(all_alerts, save_fail + 1, Len(all_alerts))
       /\ scan' = [watched |-> [i \in DOMAIN watchlist |-> watchlist[i].symbol],
                   failed |-> fail, raised |-> FALSE,
                   returned |-> Some(all_alerts)]
    /\ UNCHANGED <<daily_quote, watchlist, today, report,
                 financial, stock_info, fundamental, screened,
                   _strategies, held, account, transaction, position, scheduler>>

\* AlertEngine.check_all.  fail: the watch-list entries whose analysis raises;
\* save_fail: position in the alert list at which save_alert raises (0: none)
check_all(fail, save_fail) ==
    /\ now < MaxScans
    /\ fail \subseteq {watchlist[i].symbol : i \in DOMAIN watchlist}
    /\ save_fail \in 0..Len(check_all_alerts(fail))
    /\ now' = now + 1
    /\ LET all_alerts == check_all_alerts(fail) IN
       IF save_fail = 0
       THEN /\ alert' = alert \o all_alerts
            /\ scan' = [watched |-> [i \in DOMAIN watchlist |-> watchlist[i].symbol],
                        failed |-> fail, raised |-> FALSE,
                        returned |-> Some(all_alerts)]
       ELSE /\ alert' = alert \o SubSeq(all_alerts, 1, save_fail - 1)
            /\ scan' = [watched |-> [i \in DOMAIN watchlist |-> watchlist[i].symbol],
                        failed |-> fail, raised |-> TRUE, returned |-> None]
    /\ UNCHANGED <<daily_quote, watchlist, today, report,
                 financial, stock_info, fundamental, screened,
                   _strategies, held, account, transaction, position, scheduler>>

-----------------------------------------------------------------------------
(* Repository writers driven by the user and by the data providers *)

save_quotes(symbol, quotes) ==
    /\ quotes # <<>>
    /\ daily_quote' = [daily_quote EXCEPT ![symbol] = save_quotes_rows(@, quotes)]
    /\ UNCHANGED <<watchlist, alert, today, now, scan, report,
                 financial, stock_info, fundamental, screened,
                   _strategies, held, account, transaction, position, scheduler>>

\* the calendar day changes
NextDay ==
    /\ today < MaxDate
    /\ today' = today + 1
    /\ UNCHANGED <<daily_quote, watchlist, alert, now, scan, report,
                 financial, stock_info, fundamental, screened,
                   _strategies, held, account, transaction, position, scheduler>>

-----------------------------------------------------------------------------
(* Price histories the data providers deliver.  A history of n bars ends at
   close Base on date FirstDay; going back in time, step j is the final
   step g for j = 1 (when given) and otherwise one of u rises of a ticks
   or 20 - u falls of b ticks per 20 bars, evenly spread.  A bar opens at
   the previous close; its wick is w on the side it moved to and v on the
   other side.  *)

Step(j, sh) ==
    IF j = 1 /\ sh.g # None THEN Val(sh.g)
    ELSE IF (j * sh.u) \div 20 # ((j - 1) * sh.u) \div 20 THEN sh.a ELSE -sh.b

\* the sum of the last k steps
Drop(k, sh) == SumSeq([j \in 1..k |-> Step(j, sh)])

GenClose(i, n, sh) == Base - Drop(n - i, sh)

GenBar(i, n, sh) ==
    LET c == GenClose(i, n, sh)
        o == IF i = 1 THEN c ELSE GenClose(i - 1, n, sh)
    IN [open |-> o,
        high |-> Max2(o, c) + (IF c >= o THEN sh.w ELSE sh.v),
        low |-> Min2(o, c) - (IF c <= o THEN sh.w ELSE sh.v),
        close |-> c, pre_close |-> IF i = 1 THEN None ELSE Some(o)]

GenTable(n, sh) ==
    [d \in (FirstDay - n + 1)..FirstDay |-> GenBar(d - (FirstDay - n), n, sh)]

Shape(u, a, b, g, w, v) ==
    [u |-> u, a |-> a, b |-> b, g |-> g, w |-> w, v |-> v]

\* the bar of a new trading day: opens at the previous close and moves by step
NewBar(symbol, step) ==
    LET prev == daily_quote[symbol][today - 1].close
    IN [trade_date |-> today, open |-> prev, high |-> Max2(prev, prev + step),
        low |-> Min2(prev, prev + step), close |-> prev + step,
        pre_close |-> Some(prev)]

-----------------------------------------------------------------------------
(* The alert engine over a database that already holds price histories *)

AlertLens == {2, 14, 26, 27, 28}
AlertShapes ==
    { Shape(0, 0, 0, None, 1, 1),         \* flat
      Shape(0, 0, 1, None, 1, 1),         \* falling every day
      Shape(20, 1, 0, None, 1, 1),        \* rising every day
      Shape(0, 0, 0, Some(12), 1, 1),     \* flat, then a jump of 6%
      Shape(0, 0, 0, Some(2), 1, 1),      \* flat, then a small rise
      Shape(0, 0, 1, Some(12), 1, 1),     \* falling, then a jump
      Shape(0, 0, 0, Some(-12), 1, 1) }   \* flat, then a drop of 6%
OtherTable == GenTable(27, Shape(0, 0, 0, Some(2), 1, 1))
Thresholds == { <<None, None>>, <<Some(Base), Some(Base)>>,
                <<Some(Base - 50), None>>, <<None, Some(Base - 50)>> }
NewBarSteps == {0, 12}
Failures == { {}, {"A"}, {"B"} }

Init ==
    /\ \E n \in AlertLens, sh \in AlertShapes :
           daily_quote = [s \in Symbols |->
                             IF s = "A" THEN GenTable(n, sh) ELSE OtherTable]
    /\ \E th \in Thresholds :
           watchlist = <<[symbol |-> "A", alert_price_high |-> th[1],
                          alert_price_low |-> th[2]],
                         [symbol |-> "B", alert_price_high |-> None,
                          alert_price_low |-> None]>>
    /\ alert = <<>>
    /\ today = FirstDay
    /\ now = 0
    /\ scan = NoScan
    /\ report = None
    /\ financial = NoStatements
    /\ stock_info = Listed
    /\ fundamental = None
    /\ screened = None
    /\ _strategies = StrategyRegistry
    /\ held = NothingHeld
    /\ account = NoAccounts
    /\ transaction = <<>>
    /\ position = None
    /\ scheduler = NoScheduler

Next ==
    \/ \E fail \in Failures : check_all(fail, 0)
    \/ \E step \in NewBarSteps :
           /\ today \notin DOMAIN daily_quote["A"]
           /\ today - 1 \in DOMAIN daily_quote["A"]
           /\ save_quotes("A", <<NewBar("A", step)>>)
    \/ NextDay

Spec == Init /\ [][Next]_vars

-----------------------------------------------------------------------------
(* Vocabulary of the properties *)

IsScanStep == now' = now + 1

\* the alerts of a list that belong to one symbol, in list order
AlertsOf(alerts, symbol) == SelectSeq(alerts, LAMBDA a : a.symbol = symbol)
KindCount(alerts, symbol, kind) ==
    Len(SelectSeq(alerts, LAMBDA a : a.symbol = symbol /\ a.alert_type = kind))

\* the frame the alert engine builds for a symbol from the stored bars
FrameOf(symbol) == AlertEngine_quotes_to_dataframe(get_quotes(symbol, 90))

\* the golden-cross predicate on a non-empty series
Golden(df) == is_golden_cross(calc_macd(df))
NewlyGolden(df) == Len(df) >= 2 /\ Golden(df) /\ ~Golden(DropLast(df))

Scanned(sc, symbol) ==
    /\ ~sc.raised
    /\ \E i \in DOMAIN sc.watched : sc.watched[i] = symbol
    /\ symbol \notin sc.failed

Crossings(df) ==
    Cardinality({k \in 2..Len(df) : NewlyGolden(SubSeq(df, 1, k))})

\* C2: every false-to-true transition of a symbol's golden-cross predicate
\* has at most one persisted MACD_GOLDEN_CROSS alert (bars are only ever
\* appended, so the transitions so far are those of the stored series).
C2_OncePerTransition ==
    \A s \in Symbols :
        KindCount(alert, s, "MACD_GOLDEN_CROSS")
            <= Crossings(AlertEngine_quotes_to_dataframe(get_quotes(s, MaxDate)))

\* C3 (as stated): one scan of one symbol yields at most 4 alerts.
C3_AtMostFour ==
    scan.returned # None =>
        \A s \in Symbols : Len(AlertsOf(Val(scan.returned), s)) <= 4

\* C3 (amended): one scan of one symbol yields at most 5 alerts: at most two
\* PRICE_BREAK (one per threshold), one ABNORMAL_VOLATILITY, one
\* MACD_GOLDEN_CROSS and one of RSI_OVERBOUGHT and RSI_OVERSOLD.
C3_AtMostFive ==
    scan.returned # None =>
        \A s \in Symbols :
            LET r == Val(scan.returned) IN
            /\ Len(AlertsOf(r, s)) <= 5
            /\ KindCount(r, s, "PRICE_BREAK") <= 2
            /\ KindCount(r, s, "ABNORMAL_VOLATILITY") <= 1
            /\ KindCount(r, s, "MACD_GOLDEN_CROSS") <= 1
            /\ KindCount(r, s, "RSI_OVERBOUGHT") + KindCount(r, s, "RSI_OVERSOLD") <= 1

\* a scan returned five alerts for A
C3_Witness ==
    /\ scan.returned # None
    /\ Len(AlertsOf(Val(scan.returned), "A")) = 5

\* C4: when analysing some watch-list entries raises, check_all does not
\* raise, and the alerts of every other entry are returned and appended to
\* the alert table exactly as _check_item produced them.
C4_IsolatedPerEntry ==
    [][IsScanStep =>
        /\ ~scan'.raised
        /\ \A i \in DOMAIN watchlist :
               LET item == get_watchlist[i] IN
               item.symbol \notin scan'.failed =>
                   /\ AlertsOf(Val(scan'.returned), item.symbol) = _check_item(item)
                   /\ AlertsOf(SubSeq(alert', Len(alert) + 1, Len(alert')), item.symbol)
                          = _check_item(item)]_vars

\* the analysis of A raised and the alerts of B were returned and persisted
C4_Witness ==
    /\ scan.failed = {"A"}
    /\ ~scan.raised
    /\ AlertsOf(Val(scan.returned), "B") # <<>>
    /\ AlertsOf(alert, "B") # <<>>

-----------------------------------------------------------------------------
(* Indicator library, continued: moving averages and KDJ *)

\* the entries of s in ascending order of their keys, entries of equal key
\* in list order
SortedBy(s, Key(_)) ==
    LET keys == List([i \in DOMAIN s |-> Key(s[i])])
        ranks == List([i \in DOMAIN s |->
                    Cardinality({j \in DOMAIN s :
                        keys[j] < keys[i] \/ (keys[j] = keys[i] /\ j < i)}) + 1])
    IN List([k \in DOMAIN s |-> s[CHOOSE i \in DOMAIN s : ranks[i] = k]])

sorted(s) == SortedBy(s, LAMBDA x : x)

Reverse(s) == List([i \in DOMAIN s |-> s[Len(s) + 1 - i]])

MaPeriods == <<5, 10, 20, 60>>

\* closes.rolling(window=period).mean().iloc[-1], as the exact fraction
rolling_mean(closes, period) == Frac(SumSeq(LastK(closes, period)), period)

\* calc_ma: the periods the frame is long enough for
calc_ma(df, periods) ==
    [p \in {periods[i] : i \in DOMAIN periods} |->
        IF Len(df) >= p THEN Some(rolling_mean(Closes(df), p)) ELSE None]

KdjN == 9
KdjM1 == 3
KdjM2 == 3

SeqMin(s) == CHOOSE x \in {s[i] : i \in DOMAIN s} : \A i \in DOMAIN s : x <= s[i]
SeqMax(s) == CHOOSE x \in {s[i] : i \in DOMAIN s} : \A i \in DOMAIN s : x >= s[i]

\* rsv with the bars that have no value filled with 0
Rsv_fill_zero(df, i) ==
    IF i < KdjN THEN 0
    ELSE LET win == SubSeq(df, i - KdjN + 1, i)
             low_min == SeqMin([k \in DOMAIN win |-> win[k].low])
             high_max == SeqMax([k \in DOMAIN win |-> win[k].high])
         IN IF high_max = low_min THEN 0
            ELSE ((df[i].close - low_min) * 100 * Scale) \div (high_max - low_min)

\* rsv of bar i in fixed point: 50 while the window is incomplete and when
\* the window has no range (fillna(50))
Rsv(df, i) ==
    IF i < KdjN THEN 50 * Scale
    ELSE LET win == SubSeq(df, i - KdjN + 1, i)
             low_min == SeqMin([k \in DOMAIN win |-> win[k].low])
             high_max == SeqMax([k \in DOMAIN win |-> win[k].high])
         IN IF high_max = low_min THEN 50 * Scale
            ELSE ((df[i].close - low_min) * 100 * Scale) \div (high_max - low_min)

\* the recurrences after one more bar; st.i is the number of bars consumed
KdjStep(df, st) ==
    LET k == EwmStep(st.k, Rsv(df, st.i + 1), KdjM1)
        d == EwmStep(st.d, k, KdjM2)
    IN [i |-> st.i + 1, k |-> k, d |-> d]

\* state st advanced to bar hi
RECURSIVE KdjFold(_, _, _)
KdjFold(df, hi, st) ==
    IF st.i >= hi THEN st
    ELSE IF st.i + 1 = hi THEN KdjStep(df, st)
    ELSE KdjFold(df, hi, KdjFold(df, (st.i + hi) \div 2, st))

calc_kdj(df) ==
    LET st == KdjFold(df, Len(df), [i |-> 1, k |-> Rsv(df, 1), d |-> Rsv(df, 1)])
    IN [k |-> st.k, d |-> st.d, j |-> 3 * st.k - 2 * st.d]

-----------------------------------------------------------------------------
(* Technical analyzer *)

\* the frame sorted by trade date
TechnicalAnalyzer_quotes_to_dataframe(quotes) ==
    LET data == List([i \in DOMAIN quotes |->
                    [trade_date |-> quotes[i].trade_date, open |-> quotes[i].open,
                     high |-> quotes[i].high, low |-> quotes[i].low,
                     close |-> quotes[i].close]])
    IN SortedBy(data, LAMBDA row : row.trade_date)

FracGTF(x, y) == x.num * y.den > y.num * x.den

\* number of positive entries of closes.pct_change().tail(20); the first
\* entry of pct_change is not a number
positive_days(closes) ==
    Cardinality({i \in DOMAIN closes :
                    /\ i > Len(closes) - 20
                    /\ i > 1
                    /\ closes[i] > closes[i - 1]})

TrendResult(direction, current_price) ==
    [direction |-> direction, current_price |-> current_price]

\* the decision table with inclusive thresholds
_analyze_trend_inclusive(df) ==
    LET closes == Closes(df)
        short_up == FracGTF(rolling_mean(closes, 5), rolling_mean(closes, 10))
        mid_up == FracGTF(rolling_mean(closes, 10), rolling_mean(closes, 20))
        pos == positive_days(closes)
        len == Len(LastK(closes, 20))
    IN TrendResult(
           IF pos * 100 >= 65 * len /\ short_up /\ mid_up THEN "strong-up"
           ELSE IF pos * 100 >= 55 * len /\ short_up THEN "weak-up"
           ELSE IF pos * 100 <= 35 * len /\ ~short_up /\ ~mid_up THEN "strong-down"
           ELSE IF pos * 100 <= 45 * len /\ ~short_up THEN "weak-down"
           ELSE "sideways",
           closes[Len(closes)])

\* trend_strength = positive_days / len(recent_returns), compared with
\* 0.65, 0.55, 0.35 and 0.45
_analyze_trend(df) ==
    LET closes == Closes(df)
        short_up == FracGTF(rolling_mean(closes, 5), rolling_mean(closes, 10))
        mid_up == FracGTF(rolling_mean(closes, 10), rolling_mean(closes, 20))
        pos == positive_days(closes)
        len == Len(LastK(closes, 20))
    IN TrendResult(
           IF pos * 100 > 65 * len /\ short_up /\ mid_up THEN "strong-up"
           ELSE IF pos * 100 > 55 * len /\ short_up THEN "weak-up"
           ELSE IF pos * 100 < 35 * len /\ ~short_up /\ ~mid_up THEN "strong-down"
           ELSE IF pos * 100 < 45 * len /\ ~short_up THEN "weak-down"
           ELSE "sideways",
           closes[Len(closes)])

_calculate_indicators(df) ==
    LET ma_dict == calc_ma(df, MaPeriods)
    IN [ma5 |-> ma_dict[5], ma10 |-> ma_dict[10], ma20 |-> ma_dict[20],
        ma60 |-> ma_dict[60],
        macd |-> IF Len(df) >= 26 THEN Some(calc_macd(df)) ELSE None,
        kdj |-> IF Len(df) >= 9 THEN Some(calc_kdj(df)) ELSE None,
        rsi |-> IF Len(df) >= 14 THEN Some(calc_rsi(df)) ELSE None]

Lookback == 60

\* indices of the interior bars of the window: range(2, len(recent_df) - 2)
Interior(recent_df) == 3..(Len(recent_df) - 2)

IsLocalHigh(highs, i) ==
    /\ highs[i] > highs[i - 1] /\ highs[i] > highs[i - 2]
    /\ highs[i] > highs[i + 1] /\ highs[i] > highs[i + 2]

IsLocalLow(lows, i) ==
    /\ lows[i] < lows[i - 1] /\ lows[i] < lows[i - 2]
    /\ lows[i] < lows[i + 1] /\ lows[i] < lows[i + 2]

\* the entries of s at the indices of I, in index order
Pick(s, I) ==
    LET idx == SelectSeq(Indices(s), LAMBDA i : i \in I)
    IN List([k \in DOMAIN idx |-> s[idx[k]]])

\* levels are prices in hundredths, so that current_price * 1.05 and
\* current_price * 0.95 are exact

\* the levels without the comparison with the current price
_find_support_resistance_any_side(df) ==
    LET recent_df == LastK(df, Min2(Lookback, Len(df)))
        highs == List([i \in DOMAIN recent_df |-> recent_df[i].high])
        lows == List([i \in DOMAIN recent_df |-> recent_df[i].low])
        current_price == recent_df[Len(recent_df)].close
        resistance_levels ==
            sorted(Pick(highs, {i \in Interior(recent_df) : IsLocalHigh(highs, i)}))
        support_levels ==
            Reverse(sorted(Pick(lows, {i \in Interior(recent_df) : IsLocalLow(lows, i)})))
    IN [resistance_1 |-> IF resistance_levels # <<>> THEN resistance_levels[1] * 100
                         ELSE current_price * 105,
        resistance_2 |-> IF Len(resistance_levels) > 1
                         THEN Some(resistance_levels[2] * 100) ELSE None,
        support_1 |-> IF support_levels # <<>> THEN support_levels[1] * 100
                      ELSE current_price * 95,
        support_2 |-> IF Len(support_levels) > 1
                      THEN Some(support_levels[2] * 100) ELSE None]

_find_support_resistance(df) ==
    LET recent_df == LastK(df, Min2(Lookback, Len(df)))
        highs == List([i \in DOMAIN recent_df |-> recent_df[i].high])
        lows == List([i \in DOMAIN recent_df |-> recent_df[i].low])
        current_price == recent_df[Len(recent_df)].close
        resistance_levels ==
            sorted(Pick(highs, {i \in Interior(recent_df) :
                                    IsLocalHigh(highs, i) /\ highs[i] > current_price}))
        support_levels ==
            Reverse(sorted(Pick(lows, {i \in Interior(recent_df) :
                                    IsLocalLow(lows, i) /\ lows[i] < current_price})))
    IN [resistance_1 |-> IF resistance_levels # <<>> THEN resistance_levels[1] * 100
                         ELSE current_price * 105,
        resistance_2 |-> IF Len(resistance_levels) > 1
                         THEN Some(resistance_levels[2] * 100) ELSE None,
        support_1 |-> IF support_levels # <<>> THEN support_levels[1] * 100
                      ELSE current_price * 95,
        support_2 |-> IF Len(support_levels) > 1
                      THEN Some(support_levels[2] * 100) ELSE None]

\* the patterns of one bar, in the order the code tests them
BarPatterns(bar) ==
    LET body == Abs(bar.close - bar.open)
        total_range == bar.high - bar.low
        upper_shadow == bar.high - Max2(bar.open, bar.close)
        lower_shadow == Min2(bar.open, bar.close) - bar.low
    IN IF total_range = 0 THEN <<>>
       ELSE (IF bar.close > bar.open /\ body * 10 > 7 * total_range
             THEN <<"big_bullish">> ELSE <<>>)
         \o (IF bar.close < bar.open /\ body * 10 > 7 * total_range
             THEN <<"big_bearish">> ELSE <<>>)
         \o (IF body * 10 < total_range /\ upper_shadow > body /\ lower_shadow > body
             THEN <<"doji">> ELSE <<>>)
         \o (IF lower_shadow > body * 2 /\ upper_shadow * 2 < body
                /\ bar.close > bar.open
             THEN <<"hammer">> ELSE <<>>)
         \o (IF upper_shadow > body * 2 /\ lower_shadow * 2 < body
                /\ bar.close > bar.open
             THEN <<"inverted_hammer">> ELSE <<>>)
         \o (IF upper_shadow > body * 2 /\ lower_shadow * 2 < body
                /\ bar.close < bar.open
             THEN <<"shooting_star">> ELSE <<>>)

\* list(dict.fromkeys(s)): the first occurrence of every entry, in order
Dedup(s) ==
    LET first == SelectSeq(Indices(s), LAMBDA i : \A j \in 1..(i - 1) : s[j] # s[i])
    IN List([k \in DOMAIN first |-> s[first[k]]])

\* the last three bars of the last five, the latest first
_detect_patterns(df) ==
    IF Len(df) < 3 THEN <<>>
    ELSE LET recent == LastK(df, 5)
             n == Len(recent)
             idx == Reverse([k \in 1..(n - Max2(n - 4, 0) - 1) |-> Max2(n - 4, 0) + 1 + k])
         IN Dedup(Flatten([k \in DOMAIN idx |-> BarPatterns(recent[idx[k]])]))

trend_scores(direction) ==
    CASE direction = "strong-up" -> 20
      [] direction = "weak-up" -> 10
      [] direction = "sideways" -> 0
      [] direction = "weak-down" -> -10
      [] direction = "strong-down" -> -20
      [] OTHER -> 0

bullish_patterns == {"big_bullish", "hammer", "inverted_hammer"}
bearish_patterns == {"big_bearish", "shooting_star"}

\* truth value of an optional Decimal: None and zero are false, NaN is true
DecimalTruthy(o) == o # None /\ (Val(o).nan \/ Val(o).num # 0)

\* comparing a NaN Decimal with a number raises InvalidOperation
_calculate_score_raises(indicators) ==
    indicators.rsi # None /\ Val(indicators.rsi).nan

\* the MACD term of the score
_macd_score(indicators) ==
    IF indicators.macd # None
    THEN IF is_golden_cross(Val(indicators.macd)) THEN 10
         ELSE IF Val(indicators.macd).macd < 0 THEN -5 ELSE 0
    ELSE 0

_calculate_score(trend, indicators, patterns) ==
    LET s_trend == trend_scores(trend.direction)
        s_macd == _macd_score(indicators)
        s_rsi == IF DecimalTruthy(indicators.rsi)
                 THEN IF FracLT(Val(indicators.rsi), 30) THEN 10
                      ELSE IF FracGT(Val(indicators.rsi), 70) THEN -10 ELSE 0
                 ELSE 0
        s_kdj == IF indicators.kdj # None
                 THEN IF Val(indicators.kdj).j < 20 * Scale THEN 5
                      ELSE IF Val(indicators.kdj).j > 80 * Scale THEN -5 ELSE 0
                 ELSE 0
        s_pat == SumSeq([i \in DOMAIN patterns |->
                            IF patterns[i] \in bullish_patterns THEN 5
                            ELSE IF patterns[i] \in bearish_patterns THEN -5 ELSE 0])
    IN Max2(0, Min2(100, 50 + s_trend + s_macd + s_rsi + s_kdj + s_pat))

InsufficientReport(symbol) ==
    [symbol |-> symbol, trend |-> None, indicators |-> None,
     support_resistance |-> None, patterns |-> <<>>, score |-> 0,
     summary |-> Some("insufficient data")]

Raised == [raised |-> TRUE, value |-> None]
Returned(v) == [raised |-> FALSE, value |-> Some(v)]

\* TechnicalAnalyzer.analyze on the bars the repository hands over
analyze_on(symbol, quotes) ==
    IF quotes = <<>> \/ Len(quotes) < 20 THEN Returned(InsufficientReport(symbol))
    ELSE LET df == TechnicalAnalyzer_quotes_to_dataframe(quotes)
             trend == _analyze_trend(df)
             indicators == _calculate_indicators(df)
             support_resistance == _find_support_resistance(df)
             patterns == _detect_patterns(df)
         IN IF _calculate_score_raises(indicators) THEN Raised
            ELSE Returned([symbol |-> symbol, trend |-> Some(trend),
                           indicators |-> Some(indicators),
                           support_resistance |-> Some(support_resistance),
                           patterns |-> patterns,
                           score |-> _calculate_score(trend, indicators, patterns),
                           summary |-> None])

\* TechnicalAnalyzer.analyze on the bars the repository hands over.  The
\* call is recorded with these bars.
analyze_from(symbol, quotes) ==
    /\ report' = Some([symbol |-> symbol, quotes |-> quotes,
                       result |-> analyze_on(symbol, quotes)])
    /\ UNCHANGED <<daily_quote, watchlist, alert, today, now, scan,
                 financial, stock_info, fundamental, screened,
                   _strategies, held, account, transaction, position, scheduler>>

\* TechnicalAnalyzer.analyze(symbol, days)
analyze(symbol, days) == analyze_from(symbol, get_quotes(symbol, days))

-----------------------------------------------------------------------------
(* The technical analyzer over a database that already holds price
   histories *)

TechLens == {0, 19, 20, 21, 26, 62}
TechShapes ==
    { Shape(14, 2, 1, None, 1, 1),       \* 14 rises in 20 bars
      Shape(13, 2, 1, None, 1, 1),       \* 13 rises in 20 bars
      Shape(12, 2, 1, None, 1, 1),
      Shape(11, 2, 1, None, 1, 1),
      Shape(9, 1, 2, None, 1, 1),
      Shape(8, 1, 2, None, 1, 1),
      Shape(7, 1, 2, None, 1, 1),
      Shape(6, 1, 2, None, 1, 1),
      Shape(0, 0, 0, None, 1, 1),        \* flat
      Shape(0, 0, 1, None, 1, 1),        \* falling every day
      Shape(5, 6, 1, None, 1, 0),        \* peaks and troughs around a rise
      Shape(5, 1, 6, None, 1, 0),        \* peaks and troughs around a fall
      Shape(4, 1, 0, Some(1), 0, 3),     \* long lower wicks
      Shape(20, 1, 0, None, 1, 1),       \* rising every day
      Shape(0, 0, 0, None, 0, 0),        \* flat, bars without a range
      Shape(1, 5, 0, None, 0, 0) }       \* one jump in 20 bars without a range
AnalyzeDays == {365, 30}
TechSteps == {-3, 0, 12}

InitTech ==
    /\ \E n \in TechLens, sh \in TechShapes :
           daily_quote = [s \in Symbols |->
                             IF s = "A" THEN GenTable(n, sh) ELSE OtherTable]
    /\ watchlist = <<>>
    /\ alert = <<>>
    /\ today = FirstDay
    /\ now = 0
    /\ scan = NoScan
    /\ report = None
    /\ financial = NoStatements
    /\ stock_info = Listed
    /\ fundamental = None
    /\ screened = None
    /\ _strategies = StrategyRegistry
    /\ held = NothingHeld
    /\ account = NoAccounts
    /\ transaction = <<>>
    /\ position = None
    /\ scheduler = NoScheduler

NextTech ==
    \/ \E days \in AnalyzeDays : analyze("A", days)
    \/ \E step \in TechSteps :
           /\ today \notin DOMAIN daily_quote["A"]
           /\ today - 1 \in DOMAIN daily_quote["A"]
           /\ save_quotes("A", <<NewBar("A", step)>>)
    \/ NextDay

SpecTech == InitTech /\ [][NextTech]_vars

-----------------------------------------------------------------------------
(* The engine operations on bars handed over in an arbitrary order *)

\* AlertEngine._check_item on the bars the repository hands over.  The call
\* is recorded with the entry and the bars.
check_item_from(item, quotes) ==
    /\ scan' = [watched |-> <<item.symbol>>, failed |-> {}, raised |-> FALSE,
                returned |-> Some(_check_item_on(item, quotes)),
                item |-> item, quotes |-> quotes]
    /\ UNCHANGED <<daily_quote, watchlist, alert, today, now, report,
                 financial, stock_info, fundamental, screened,
                   _strategies, held, account, transaction, position, scheduler>>

Orders == {"ascending", "descending", "last_two_swapped", "latest_first"}

Permute(s, order) ==
    CASE order = "ascending" -> s
      [] order = "descending" -> Reverse(s)
      [] order = "last_two_swapped" ->
            IF Len(s) < 2 THEN s
            ELSE List([i \in DOMAIN s |-> IF i = Len(s) THEN s[Len(s) - 1]
                                          ELSE IF i = Len(s) - 1 THEN s[Len(s)]
                                          ELSE s[i]])
      [] order = "latest_first" ->
            List([i \in DOMAIN s |-> IF i = 1 THEN s[Len(s)] ELSE s[i - 1]])

OrderLens == {2, 20, 27}
OrderThresholds == { <<None, None>>, <<Some(Base), None>> }

InitOrder ==
    /\ \E n \in OrderLens, sh \in AlertShapes :
           daily_quote = [s \in Symbols |->
                             IF s = "A" THEN GenTable(n, sh) ELSE OtherTable]
    /\ \E th \in OrderThresholds :
           watchlist = <<[symbol |-> "A", alert_price_high |-> th[1],
                          alert_price_low |-> th[2]]>>
    /\ alert = <<>>
    /\ today = FirstDay
    /\ now = 0
    /\ scan = NoScan
    /\ report = None
    /\ financial = NoStatements
    /\ stock_info = Listed
    /\ fundamental = None
    /\ screened = None
    /\ _strategies = StrategyRegistry
    /\ held = NothingHeld
    /\ account = NoAccounts
    /\ transaction = <<>>
    /\ position = None
    /\ scheduler = NoScheduler

NextOrder ==
    \/ \E order \in Orders :
           analyze_from("A", Permute(get_quotes("A", 365), order))
    \/ \E order \in Orders :
           check_item_from(get_watchlist[1], Permute(get_quotes("A", 90), order))

SpecOrder == InitOrder /\ [][NextOrder]_vars

\* the bars of a list in ascending trade-date order
ByDate(quotes) == SortedBy(quotes, LAMBDA q : q.trade_date)

AlertKinds(alerts) == {alerts[i].alert_type : i \in DOMAIN alerts}

C5_AnalyzeSame ==
    report # None =>
        Val(report).result = analyze_on(Val(report).symbol, ByDate(Val(report).quotes))

C5_CheckItemSame ==
    "quotes" \in DOMAIN scan =>
        AlertKinds(Val(scan.returned))
            = AlertKinds(_check_item_on(scan.item, ByDate(scan.quotes)))

\* C5: whatever the order in which the fetched bars are handed over,
\* TechnicalAnalyzer.analyze returns the report, and AlertEngine._check_item
\* the set of alert kinds, that it returns for the date-ascending order.
C5_OrderInsensitive == C5_AnalyzeSame /\ C5_CheckItemSame

-----------------------------------------------------------------------------
(* Fundamental analyzer.  Ratios are exact fractions with a positive
   denominator; the text of the summary is kept as the list of its
   fragments, without the figures some of them quote. *)

RECURSIVE Gcd(_, _)
Gcd(a, b) == IF b = 0 THEN a ELSE Gcd(b, a % b)

\* the fraction n / d in lowest terms
Ratio(n, d) ==
    LET g == Gcd(Abs(n), Abs(d))
    IN IF d < 0 THEN Frac((-n) \div g, (-d) \div g) ELSE Frac(n \div g, d \div g)

\* Python's truth value of an optional decimal
Truthy(o) == o # None /\ Val(o) # 0

Clamp(x) == Max2(0, Min2(100, x))

\* _analyze_valuation with the first PE band closed at 15
_analyze_valuation_inclusive(financials) ==
    IF financials = <<>>
    THEN [pe |-> None, pb |-> None, is_undervalued |-> None, score |-> 50]
    ELSE LET latest == financials[1]
             pe == latest.pe
             pb == latest.pb
             pe_bonus ==
                 IF pe = None THEN 0
                 ELSE IF Val(pe) > 0
                      THEN IF Val(pe) <= 15 * Cent THEN 20
                           ELSE IF Val(pe) < 25 * Cent THEN 10
                           ELSE IF Val(pe) < 40 * Cent THEN 0
                           ELSE -10
                      ELSE -20
             is_undervalued ==
                 IF pe = None THEN None
                 ELSE Some(Val(pe) > 0 /\ Val(pe) <= 15 * Cent)
             pb_bonus ==
                 IF pb = None \/ Val(pb) <= 0 THEN 0
                 ELSE IF Val(pb) < 1 * Cent THEN 15
                 ELSE IF Val(pb) < 2 * Cent THEN 5
                 ELSE IF Val(pb) > 5 * Cent THEN -10
                 ELSE 0
         IN [pe |-> pe, pb |-> pb, is_undervalued |-> is_undervalued,
             score |-> Clamp(50 + pe_bonus + pb_bonus)]

_analyze_valuation(financials) ==
    IF financials = <<>>
    THEN [pe |-> None, pb |-> None, is_undervalued |-> None, score |-> 50]
    ELSE LET latest == financials[1]
             pe == latest.pe
             pb == latest.pb
             pe_bonus ==
                 IF pe = None THEN 0
                 ELSE IF Val(pe) > 0
                      THEN IF Val(pe) < 15 * Cent THEN 20
                           ELSE IF Val(pe) < 25 * Cent THEN 10
                           ELSE IF Val(pe) < 40 * Cent THEN 0
                           ELSE -10
                      ELSE -20
             is_undervalued ==
                 IF pe = None THEN None
                 ELSE Some(Val(pe) > 0 /\ Val(pe) < 15 * Cent)
             pb_bonus ==
                 IF pb = None \/ Val(pb) <= 0 THEN 0
                 ELSE IF Val(pb) < 1 * Cent THEN 15
                 ELSE IF Val(pb) < 2 * Cent THEN 5
                 ELSE IF Val(pb) > 5 * Cent THEN -10
                 ELSE 0
         IN [pe |-> pe, pb |-> pb, is_undervalued |-> is_undervalued,
             score |-> Clamp(50 + pe_bonus + pb_bonus)]

\* s[a:b] of Python, positions counted from 0
Slice(s, a, b) == SubSeq(s, a + 1, Min2(b, Len(s)))

\* the values of a field that are not None, in list order
NotNone(financials, Field(_)) ==
    LET present == SelectSeq(financials, LAMBDA f : Field(f) # None)
    IN List([i \in DOMAIN present |-> Val(Field(present[i]))])

\* "rising" / "falling" when recent_avg > older_avg * 1.1 / < older_avg * 0.9,
\* for recent_avg = recent / n and older_avg = older / m
TrendOf(recent, n, older, m) ==
    IF 10 * recent * m > 11 * older * n THEN "rising"
    ELSE IF 10 * recent * m < 9 * older * n THEN "falling"
    ELSE "stable"

_analyze_profitability(financials) ==
    IF financials = <<>>
    THEN [roe_current |-> None, roe_avg_3y |-> None, gross_margin |-> None,
          roe_trend |-> "unknown", score |-> 50]
    ELSE LET latest == financials[1]
             roe_current == latest.roe
             gross_margin == latest.gross_margin
             roe_values == NotNone(Slice(financials, 0, 12), LAMBDA f : f.roe)
             roe_avg_3y == IF roe_values = <<>> THEN None
                           ELSE Some(Frac(SumSeq(roe_values), Len(roe_values)))
             recent == SumSeq(Slice(roe_values, 0, 3))
             roe_trend ==
                 IF Len(roe_values) >= 3
                 THEN IF Len(roe_values) >= 6
                      THEN TrendOf(recent, 3, SumSeq(Slice(roe_values, 3, 6)),
                                   Len(Slice(roe_values, 3, 6)))
                      ELSE TrendOf(recent, 3, recent, 3)
                 ELSE "stable"
             roe_bonus ==
                 IF roe_current = None THEN 0
                 ELSE IF Val(roe_current) > 20 * Cent THEN 25
                 ELSE IF Val(roe_current) > 15 * Cent THEN 15
                 ELSE IF Val(roe_current) > 10 * Cent THEN 5
                 ELSE IF Val(roe_current) > 5 * Cent THEN 0
                 ELSE -10
             trend_bonus == IF roe_trend = "rising" THEN 10
                            ELSE IF roe_trend = "falling" THEN -10 ELSE 0
             margin_bonus ==
                 IF gross_margin = None THEN 0
                 ELSE IF Val(gross_margin) > 40 * Cent THEN 10
                 ELSE IF Val(gross_margin) > 20 * Cent THEN 5
                 ELSE IF Val(gross_margin) < 10 * Cent THEN -5
                 ELSE 0
         IN [roe_current |-> roe_current, roe_avg_3y |-> roe_avg_3y,
             gross_margin |-> gross_margin, roe_trend |-> roe_trend,
             score |-> Clamp(50 + roe_bonus + trend_bonus + margin_bonus)]

\* (latest - previous) / previous * 100
YoY(latest, previous) == Ratio((latest - previous) * 100, previous)

RECURSIVE Pow(_, _)
Pow(x, n) == IF n = 0 THEN 1 ELSE x * Pow(x, n - 1)

\* the compound growth ((latest / oldest) ** (1 / years) - 1) * 100 with
\* years = days / 365, kept as the figures it is computed from
Cagr(latest, oldest, days) == [latest |-> latest, oldest |-> oldest, days |-> days]

\* cagr > pct: (latest / oldest) ** (365 / days) > (100 + pct) / 100, both
\* sides raised to the power days / gcd(365, days)
CagrGT(c, pct) ==
    LET g == Gcd(365, c.days)
        h == Gcd(100 + pct, 100)
    IN Pow(c.latest, 365 \div g) * Pow(100 \div h, c.days \div g)
           > Pow(c.oldest, 365 \div g) * Pow((100 + pct) \div h, c.days \div g)

YoYBonus(yoy) ==
    IF yoy = None THEN 0
    ELSE IF FracGT(Val(yoy), 30) THEN 20
    ELSE IF FracGT(Val(yoy), 15) THEN 10
    ELSE IF FracGT(Val(yoy), 5) THEN 5
    ELSE IF FracLT(Val(yoy), -10) THEN -15
    ELSE IF FracLT(Val(yoy), 0) THEN -5
    ELSE 0

_analyze_growth(financials) ==
    IF Len(financials) < 2
    THEN [revenue_yoy |-> None, profit_yoy |-> None, revenue_cagr_3y |-> None,
          score |-> 50]
    ELSE LET latest == financials[1]
             previous == financials[2]
             revenue_yoy ==
                 IF Truthy(latest.revenue) /\ Truthy(previous.revenue)
                 THEN Some(YoY(Val(latest.revenue), Val(previous.revenue)))
                 ELSE None
             profit_yoy ==
                 IF Truthy(latest.net_profit) /\ Truthy(previous.net_profit)
                 THEN Some(YoY(Val(latest.net_profit), Val(previous.net_profit)))
                 ELSE None
             oldest == financials[Len(financials)]
             revenue_cagr_3y ==
                 IF /\ Len(financials) >= 12
                    /\ Truthy(oldest.revenue) /\ Truthy(latest.revenue)
                    /\ Val(oldest.revenue) > 0 /\ Val(latest.revenue) > 0
                    /\ latest.report_date - oldest.report_date > 0
                 THEN Some(Cagr(Val(latest.revenue), Val(oldest.revenue),
                                latest.report_date - oldest.report_date))
                 ELSE None
             cagr_bonus ==
                 IF revenue_cagr_3y = None THEN 0
                 ELSE IF CagrGT(Val(revenue_cagr_3y), 20) THEN 10
                 ELSE IF CagrGT(Val(revenue_cagr_3y), 10) THEN 5
                 ELSE 0
         IN [revenue_yoy |-> revenue_yoy, profit_yoy |-> profit_yoy,
             revenue_cagr_3y |-> revenue_cagr_3y,
             score |-> Clamp(50 + YoYBonus(revenue_yoy) + YoYBonus(profit_yoy)
                                + cagr_bonus)]

_analyze_health(financials) ==
    IF financials = <<>>
    THEN [debt_ratio |-> None, debt_trend |-> None, score |-> 50]
    ELSE LET latest == financials[1]
             debt_ratio == latest.debt_ratio
             recent_ratios == NotNone(Slice(financials, 0, 4), LAMBDA f : f.debt_ratio)
             trend ==
                 IF Len(financials) >= 4 /\ Len(recent_ratios) >= 4
                 THEN TrendOf(SumSeq(Slice(recent_ratios, 0, 2)), 2,
                              SumSeq(Slice(recent_ratios, 2, 4)), 2)
                 ELSE "stable"
             ratio_bonus ==
                 IF debt_ratio = None THEN 0
                 ELSE IF Val(debt_ratio) < 30 * Cent THEN 25
                 ELSE IF Val(debt_ratio) < 50 * Cent THEN 15
                 ELSE IF Val(debt_ratio) < 70 * Cent THEN 0
                 ELSE -20
             trend_bonus == IF trend = "falling" THEN 10
                            ELSE IF trend = "rising" THEN -10 ELSE 0
         IN [debt_ratio |-> debt_ratio, debt_trend |-> Some(trend),
             score |-> Clamp(50 + ratio_bonus + trend_bonus)]

\* int(round(x / 100)): the nearest integer, a tie going to the even one
RoundHalfEven(x) ==
    LET q == x \div 100
        r == x % 100
    IN IF r < 50 THEN q
       ELSE IF r > 50 THEN q + 1
       ELSE IF q % 2 = 0 THEN q ELSE q + 1

\* the weighted sum cut to an integer instead of rounded
_calculate_overall_score_truncated(valuation, profitability, growth, health) ==
    (25 * valuation.score + 30 * profitability.score
     + 25 * growth.score + 20 * health.score) \div 100

\* weights 0.25, 0.30, 0.25 and 0.20
_calculate_overall_score(valuation, profitability, growth, health) ==
    RoundHalfEven(25 * valuation.score + 30 * profitability.score
                  + 25 * growth.score + 20 * health.score)

\* the list parts of _generate_summary: the fragment of the overall tier,
\* then the fragments of the four analyses
SummaryParts(valuation, profitability, growth, health, overall_score) ==
    Flatten(<<
        IF overall_score >= 80 THEN <<"excellent">>
        ELSE IF overall_score >= 60 THEN <<"good">>
        ELSE IF overall_score >= 40 THEN <<"fair">>
        ELSE <<"weak">>,
        IF valuation.is_undervalued = Some(TRUE) THEN <<"undervalued">>
        ELSE IF Truthy(valuation.pe) /\ Val(valuation.pe) > 40 * Cent
             THEN <<"overvalued">>
        ELSE <<>>,
        IF Truthy(profitability.roe_current)
           /\ Val(profitability.roe_current) > 15 * Cent
        THEN <<"roe">> ELSE <<>>,
        IF profitability.roe_trend = "rising" THEN <<"profitability_rising">>
        ELSE <<>>,
        IF growth.revenue_yoy # None /\ Val(growth.revenue_yoy).num # 0
           /\ FracGT(Val(growth.revenue_yoy), 20)
        THEN <<"revenue_growth">> ELSE <<>>,
        IF growth.profit_yoy # None /\ Val(growth.profit_yoy).num # 0
           /\ FracGT(Val(growth.profit_yoy), 20)
        THEN <<"profit_growth">> ELSE <<>>,
        IF Truthy(health.debt_ratio) /\ Val(health.debt_ratio) < 40 * Cent
        THEN <<"sound">>
        ELSE IF Truthy(health.debt_ratio) /\ Val(health.debt_ratio) > 70 * Cent
             THEN <<"high_debt">>
        ELSE <<>> >>)

\* _generate_summary without the fragment of the overall tier
_generate_summary_untiered(valuation, profitability, growth, health, overall_score) ==
    IF Tail(SummaryParts(valuation, profitability, growth, health, overall_score)) = <<>>
    THEN <<"insufficient_data">>
    ELSE Tail(SummaryParts(valuation, profitability, growth, health, overall_score))

\* the fragments joined, or the fixed phrase when there is none
_generate_summary(valuation, profitability, growth, health, overall_score) ==
    IF SummaryParts(valuation, profitability, growth, health, overall_score) = <<>>
    THEN <<"insufficient_data">>
    ELSE SummaryParts(valuation, profitability, growth, health, overall_score)

NoDataReport(symbol) ==
    [symbol |-> symbol, valuation |-> None, profitability |-> None,
     growth |-> None, financial_health |-> None, overall_score |-> 0,
     summary |-> <<"no_data">>]

\* analyze giving up on fewer than two statements
FundamentalAnalyzer_analyze_on_two(symbol, fetched) ==
    IF Len(fetched) < 2 THEN NoDataReport(symbol)
    ELSE LET financials == Reverse(SortedBy(Reverse(fetched),
                                            LAMBDA f : f.report_date))
             valuation == _analyze_valuation(financials)
             profitability == _analyze_profitability(financials)
             growth == _analyze_growth(financials)
             financial_health == _analyze_health(financials)
             overall_score == _calculate_overall_score(valuation, profitability,
                                                       growth, financial_health)
         IN [symbol |-> symbol, valuation |-> Some(valuation),
             profitability |-> Some(profitability), growth |-> Some(growth),
             financial_health |-> Some(financial_health),
             overall_score |-> overall_score,
             summary |-> _generate_summary(valuation, profitability, growth,
                                           financial_health, overall_score)]

\* FundamentalAnalyzer.analyze on the statements the repository hands over
FundamentalAnalyzer_analyze_on(symbol, fetched) ==
    IF fetched = <<>> THEN NoDataReport(symbol)
    ELSE LET financials == Reverse(SortedBy(Reverse(fetched),
                                            LAMBDA f : f.report_date))
             valuation == _analyze_valuation(financials)
             profitability == _analyze_profitability(financials)
             growth == _analyze_growth(financials)
             financial_health == _analyze_health(financials)
             overall_score == _calculate_overall_score(valuation, profitability,
                                                       growth, financial_health)
         IN [symbol |-> symbol, valuation |-> Some(valuation),
             profitability |-> Some(profitability), growth |-> Some(growth),
             financial_health |-> Some(financial_health),
             overall_score |-> overall_score,
             summary |-> _generate_summary(valuation, profitability, growth,
                                           financial_health, overall_score)]

\* FundamentalAnalyzer.analyze(symbol, years); the call is recorded with the
\* statements it fetched
FundamentalAnalyzer_analyze(symbol, years) ==
    LET fetched == get_financials(symbol, years)
    IN /\ fundamental' = Some([symbol |-> symbol, years |-> years,
                               fetched |-> fetched,
                               result |-> FundamentalAnalyzer_analyze_on(symbol, fetched)])
       /\ UNCHANGED <<daily_quote, watchlist, alert, today, now, scan, report,
                      financial, stock_info, screened,
                      _strategies, held, account, transaction, position, scheduler>>

-----------------------------------------------------------------------------
(* Stock screener *)

get_strategy(strategy_id) ==
    LET found == SelectSeq(_strategies, LAMBDA st : st.id = strategy_id)
    IN IF found = <<>> THEN None ELSE Some(found[1])

\* {**defaults, **params}
Merged(defaults, params) ==
    [k \in (DOMAIN defaults) \cup (DOMAIN params) |->
        IF k \in DOMAIN params THEN params[k] ELSE defaults[k]]

\* params.get(key, default)
Get(params, key, default) == IF key \in DOMAIN params THEN params[key] ELSE default

_get_stock_pool(market) ==
    LET items == SelectSeq(get_watchlist,
                     LAMBDA item : /\ get_stock_info(item.symbol) # None
                                   /\ Val(get_stock_info(item.symbol)).market = market)
    IN List([i \in DOMAIN items |-> Val(get_stock_info(items[i].symbol))])

\* a list ordered by score, the smallest first
SortedByScore_ascending(results) ==
    LET ranks == List([i \in DOMAIN results |->
                    Cardinality({j \in DOMAIN results :
                        \/ FracGTF(results[i].score, results[j].score)
                        \/ /\ ~FracGTF(results[j].score, results[i].score)
                           /\ j < i}) + 1])
    IN List([k \in DOMAIN results |-> results[CHOOSE i \in DOMAIN results : ranks[i] = k]])

\* a list ordered by score, the greatest first; entries of equal score keep
\* their order
SortedByScore(results) ==
    LET ranks == List([i \in DOMAIN results |->
                    Cardinality({j \in DOMAIN results :
                        \/ FracGTF(results[j].score, results[i].score)
                        \/ /\ ~FracGTF(results[i].score, results[j].score)
                           /\ j < i}) + 1])
    IN List([k \in DOMAIN results |-> results[CHOOSE i \in DOMAIN results : ranks[i] = k]])

\* min(100, max(0, x))
ClampScore(x) ==
    IF FracLT(x, 0) THEN Frac(0, 1) ELSE IF FracGT(x, 100) THEN Frac(100, 1) ELSE x

ScreenResult(stock, score, match_details, current_price) ==
    [symbol |-> stock.symbol, name |-> stock.name, score |-> score,
     match_details |-> match_details, current_price |-> current_price]

\* the entries of the stocks that have one, in pool order; a stock whose
\* evaluation is skipped or raises has none
Collected(stocks, Entry(_)) ==
    Flatten([i \in DOMAIN stocks |-> Entry(stocks[i])])

\* (1 - pe / max_pe) * 50 + (1 - pb / max_pb) * 50, clamped
_calculate_value_score(pe, pb, params) ==
    LET max_pe == Get(params, "max_pe", 15)
        max_pb == Get(params, "max_pb", 2)
    IN ClampScore(Ratio(50 * ((max_pe * Cent - pe) * max_pb
                              + (max_pb * Cent - pb) * max_pe),
                        max_pe * max_pb * Cent))

\* one stock of the value strategy, on the statements fetched for it
_screen_value_entry(stock, params, financials) ==
    LET max_pe == Get(params, "max_pe", 15)
        max_pb == Get(params, "max_pb", 2)
    IN IF financials = <<>> THEN <<>>
       ELSE LET latest == financials[Len(financials)]
                pe == OptDecimal(latest.pe)
                pb == OptDecimal(latest.pb)
            IN IF /\ pe # None /\ pb # None
                  /\ Val(pe) <= max_pe * Cent /\ Val(pb) <= max_pb * Cent
               THEN IF max_pe = 0 \/ max_pb = 0 THEN <<>>   \* division by zero
                    ELSE <<ScreenResult(stock, _calculate_value_score(Val(pe), Val(pb), params),
                                        [pe |-> pe, pb |-> pb], None)>>
               ELSE <<>>

_screen_value_strategy(stocks, params) ==
    SortedByScore(Collected(stocks, LAMBDA stock :
        _screen_value_entry(stock, params, get_financials(stock.symbol, 1))))

\* one stock of the growth strategy, on the report of the fundamental analyzer
_screen_growth_entry(stock, params, rep) ==
    LET min_revenue_growth == Get(params, "min_revenue_growth", 20)
        min_profit_growth == Get(params, "min_profit_growth", 15)
    IN IF rep.growth = None THEN <<>>
       ELSE LET growth == Val(rep.growth)
                revenue_yoy == IF growth.revenue_yoy # None
                                  /\ Val(growth.revenue_yoy).num # 0
                               THEN Val(growth.revenue_yoy) ELSE Frac(0, 1)
                profit_yoy == IF growth.profit_yoy # None
                                 /\ Val(growth.profit_yoy).num # 0
                              THEN Val(growth.profit_yoy) ELSE Frac(0, 1)
                score == Ratio(revenue_yoy.num * profit_yoy.den
                               + profit_yoy.num * revenue_yoy.den,
                               2 * revenue_yoy.den * profit_yoy.den)
            IN IF /\ FracGE(revenue_yoy, min_revenue_growth)
                  /\ FracGE(profit_yoy, min_profit_growth)
               THEN IF FracLT(score, 0) THEN <<>>     \* score below 0 is rejected
                    ELSE <<ScreenResult(stock,
                               IF FracGT(score, 100) THEN Frac(100, 1) ELSE score,
                               [revenue_yoy |-> revenue_yoy, profit_yoy |-> profit_yoy],
                               None)>>
               ELSE <<>>

_screen_growth_strategy(stocks, params) ==
    SortedByScore(Collected(stocks, LAMBDA stock :
        _screen_growth_entry(stock, params,
            FundamentalAnalyzer_analyze_on(stock.symbol,
                                           get_financials(stock.symbol, 3)))))

\* one stock of the low_pe strategy, on the statements fetched for it
_screen_low_pe_entry(stock, params, financials) ==
    LET max_pe == Get(params, "max_pe", 10)
    IN IF financials = <<>> THEN <<>>
       ELSE LET latest == financials[Len(financials)]
                pe == OptDecimal(latest.pe)
            IN IF pe # None /\ Val(pe) <= max_pe * Cent
               THEN LET score == IF 100 * Cent - Val(pe) * 5 < 0 THEN Frac(0, 1)
                                 ELSE Frac(100 * Cent - Val(pe) * 5, Cent)
                    IN IF FracGT(score, 100) THEN <<>>   \* score above 100 is rejected
                       ELSE <<ScreenResult(stock, score, [pe |-> pe], None)>>
               ELSE <<>>

_screen_low_pe_strategy(stocks, params) ==
    SortedByScore(Collected(stocks, LAMBDA stock :
        _screen_low_pe_entry(stock, params, get_financials(stock.symbol, 1))))

\* one stock of the momentum strategy, on the outcome of the technical
\* analyzer and the latest bar
_screen_momentum_entry(stock, params, rep, quote) ==
    LET ma_period == Get(params, "ma_period", 20)
    IN IF rep.raised THEN <<>>
       ELSE IF Val(rep.value).trend = None \/ Val(rep.value).indicators = None THEN <<>>
       ELSE IF quote = None THEN <<>>
       ELSE LET indicators == Val(Val(rep.value).indicators)
                current_price == Val(quote).close
                ma_value ==
                    IF ma_period = 5 /\ indicators.ma5 # None THEN indicators.ma5
                    ELSE IF ma_period = 20 /\ indicators.ma20 # None THEN indicators.ma20
                    ELSE IF ma_period = 60 /\ indicators.ma60 # None THEN indicators.ma60
                    ELSE None
            IN IF /\ ma_value # None /\ Val(ma_value).num # 0
                  /\ FracLT(Val(ma_value), current_price)
               THEN LET ma == Val(ma_value)
                        raw == Ratio(200 * (current_price * ma.den - ma.num) + 50 * ma.num,
                                     ma.num)
                    IN <<ScreenResult(stock,
                             IF FracGT(raw, 100) THEN Frac(100, 1) ELSE raw,
                             [current_price |-> current_price, ma |-> ma],
                             Some(current_price))>>
               ELSE <<>>

_screen_momentum_strategy(stocks, params) ==
    SortedByScore(Collected(stocks, LAMBDA stock :
        _screen_momentum_entry(stock, params,
            analyze_on(stock.symbol, get_quotes(stock.symbol, 60)),
            get_latest_quote(stock.symbol))))

\* the value StockScreener.screen returns, or the error it raises for an
\* unknown strategy
screen_on(strategy_id, params, market) ==
    IF get_strategy(strategy_id) = None THEN Raised
    ELSE LET merged_params == Merged(Val(get_strategy(strategy_id)).params, params)
             stocks == _get_stock_pool(market)
         IN Returned(
                CASE strategy_id = "value" -> _screen_value_strategy(stocks, merged_params)
                  [] strategy_id = "growth" -> _screen_growth_strategy(stocks, merged_params)
                  [] strategy_id = "low_pe" -> _screen_low_pe_strategy(stocks, merged_params)
                  [] strategy_id = "momentum" ->
                        _screen_momentum_strategy(stocks, merged_params)
                  [] OTHER -> <<>>)

\* StockScreener.screen(strategy_id, params, market); the call is recorded
\* with the pool and the statements of the last year of every symbol
screen(strategy_id, params, market) ==
    /\ screened' = Some([strategy_id |-> strategy_id, params |-> params,
                         market |-> market,
                         pool |-> _get_stock_pool(market),
                         fetched |-> [s \in Symbols |-> get_financials(s, 1)],
                         result |-> screen_on(strategy_id, params, market)])
    /\ UNCHANGED <<daily_quote, watchlist, alert, today, now, scan, report,
                   financial, stock_info, fundamental,
                   _strategies, held, account, transaction, position, scheduler>>

save_financials(symbol, financials) ==
    /\ financials # <<>>
    /\ financial' = [financial EXCEPT ![symbol] = save_financials_rows(@, financials)]
    /\ UNCHANGED <<daily_quote, watchlist, alert, today, now, scan, report,
                   stock_info, fundamental, screened,
                   _strategies, held, account, transaction, position, scheduler>>

-----------------------------------------------------------------------------
(* The fundamental analyzer and the screener over a database that already
   holds statements *)

Statement(revenue, net_profit, roe, pe, pb, debt_ratio, gross_margin) ==
    [revenue |-> revenue, net_profit |-> net_profit,
     total_assets |-> Some(1000 * Cent), total_equity |-> Some(500 * Cent),
     roe |-> roe, pe |-> pe, pb |-> pb, debt_ratio |-> debt_ratio,
     gross_margin |-> gross_margin]

\* a cheap company: PE 8, PB 0.8
Cheap ==
    Statement(Some(120 * Cent), Some(12 * Cent), Some(16 * Cent), Some(8 * Cent),
              Some((8 * Cent) \div 10), Some(35 * Cent), Some(45 * Cent))
\* a dear company: PE 30, PB 3
Dear ==
    Statement(Some(100 * Cent), Some(10 * Cent), Some(12 * Cent), Some(30 * Cent),
              Some(3 * Cent), Some(55 * Cent), Some(25 * Cent))
\* a company at a loss: PE -4
Losing ==
    Statement(Some(90 * Cent), Some(-5 * Cent), Some(-3 * Cent), Some(-4 * Cent),
              Some((15 * Cent) \div 10), Some(75 * Cent), Some(8 * Cent))
\* a statement without figures
Blank == Statement(None, None, None, None, None, None, None)

\* quarter k of a three-year history, k = 0 the most recent: revenue grows
\* from 100 to 200, ROE and the debt ratio move with k
Quarter(k) ==
    Statement(Some((IF k = 11 THEN 100 ELSE 200 - 9 * k) * Cent),
              Some((20 - k) * Cent), Some((22 - k) * Cent), Some((12 + k) * Cent),
              Some((12 * Cent) \div 10), Some((30 + 3 * k) * Cent), Some(30 * Cent))

\* the report dates of the three-year history: 1095 days from first to last
QuarterDate(k) == IF k = 11 THEN FirstDay - 20 - 1095 ELSE FirstDay - 20 - 91 * k

TwoInYear ==
    [d \in {FirstDay - 30, FirstDay - 120} |-> IF d = FirstDay - 30 THEN Dear ELSE Cheap]

Histories ==
    { <<>>,
      [d \in {FirstDay - 30} |-> Cheap],
      TwoInYear,
      [d \in {FirstDay - 30, FirstDay - 120} |-> IF d = FirstDay - 30 THEN Cheap ELSE Dear],
      [d \in {FirstDay - 30, FirstDay - 400} |-> IF d = FirstDay - 30 THEN Dear ELSE Cheap],
      [d \in {FirstDay - 30, FirstDay - 120} |-> IF d = FirstDay - 30 THEN Losing ELSE Cheap],
      [d \in {FirstDay - 30, FirstDay - 120} |-> IF d = FirstDay - 30 THEN Blank ELSE Dear],
      [d \in {QuarterDate(k) : k \in 0..11} |->
          Quarter(CHOOSE k \in 0..11 : QuarterDate(k) = d)] }

OtherHistory == [d \in {FirstDay - 45} |-> Cheap]

Listings ==
    { Listed,
      [Listed EXCEPT !["B"] = Some([symbol |-> "B", name |-> "B", market |-> "HK_STOCK"])],
      [Listed EXCEPT !["B"] = None] }

AnalyzeYears == {5, 1}
\* the calls of StockScreener.screen: strategy, overrides, market
ScreenCalls ==
    { <<"value", <<>>, "A_STOCK">>, <<"value", [max_pe |-> 40], "A_STOCK">>,
      <<"value", <<>>, "HK_STOCK">>,
      <<"low_pe", <<>>, "A_STOCK">>, <<"low_pe", [max_pe |-> 40], "A_STOCK">>,
      <<"growth", <<>>, "A_STOCK">>, <<"momentum", <<>>, "A_STOCK">>,
      <<"dividend", <<>>, "A_STOCK">> }
\* the statement filed while the model runs, and its report date
NewStatements == {Dear}
FilingDate == FirstDay - 20

InitFin ==
    /\ daily_quote = [s \in Symbols |->
                         IF s = "A" THEN GenTable(21, Shape(14, 2, 1, None, 1, 1))
                         ELSE OtherTable]
    /\ watchlist = <<[symbol |-> "A", alert_price_high |-> None,
                      alert_price_low |-> None],
                     [symbol |-> "B", alert_price_high |-> None,
                      alert_price_low |-> None]>>
    /\ alert = <<>>
    /\ today = FirstDay
    /\ now = 0
    /\ scan = NoScan
    /\ report = None
    /\ \E h \in Histories :
           financial = [s \in Symbols |-> IF s = "A" THEN h ELSE OtherHistory]
    /\ stock_info \in Listings
    /\ financial["A"] # TwoInYear => stock_info = Listed
    /\ fundamental = None
    /\ screened = None
    /\ _strategies = StrategyRegistry
    /\ held = NothingHeld
    /\ account = NoAccounts
    /\ transaction = <<>>
    /\ position = None
    /\ scheduler = NoScheduler

NextFin ==
    \/ \E years \in AnalyzeYears : FundamentalAnalyzer_analyze("A", years)
    \/ \E call \in ScreenCalls : screen(call[1], call[2], call[3])
    \/ \E st \in NewStatements :
           save_financials("A", <<Financial("A", FilingDate, st)>>)

SpecFin == InitFin /\ [][NextFin]_vars

\* the statement with the greatest report date
Newest(statements) ==
    CHOOSE f \in {statements[i] : i \in DOMAIN statements} :
        \A i \in DOMAIN statements : statements[i].report_date <= f.report_date

\* the statement before the newest one
Previous(statements) ==
    Newest(SelectSeq(statements, LAMBDA f : f # Newest(statements)))

C6_AnalyzerReadsNewest ==
    (fundamental # None /\ Val(fundamental).fetched # <<>>) =>
        LET fetched == Val(fundamental).fetched
            result == Val(fundamental).result
            latest == Newest(fetched)
        IN /\ Val(result.valuation).pe = latest.pe
           /\ Val(result.valuation).pb = latest.pb
           /\ Val(result.profitability).roe_current = latest.roe
           /\ Val(result.profitability).gross_margin = latest.gross_margin
           /\ Val(result.financial_health).debt_ratio = latest.debt_ratio
           /\ Len(fetched) >= 2 =>
                  Val(result.growth).revenue_yoy
                      = IF Truthy(latest.revenue) /\ Truthy(Previous(fetched).revenue)
                        THEN Some(YoY(Val(latest.revenue),
                                      Val(Previous(fetched).revenue)))
                        ELSE None

\* the statements of a symbol cut down to the newest one
NewestOnly(statements) ==
    IF statements = <<>> THEN <<>> ELSE <<Newest(statements)>>

C6_ScreenerReadsNewest ==
    (/\ screened # None
     /\ Val(screened).strategy_id \in {"value", "low_pe"}) =>
        LET call == Val(screened)
            merged_params == Merged(Val(get_strategy(call.strategy_id)).params,
                                    call.params)
        IN Val(call.result.value) =
               SortedByScore(Collected(call.pool, LAMBDA stock :
                   IF call.strategy_id = "value"
                   THEN _screen_value_entry(stock, merged_params,
                                            NewestOnly(call.fetched[stock.symbol]))
                   ELSE _screen_low_pe_entry(stock, merged_params,
                                             NewestOnly(call.fetched[stock.symbol]))))

\* C6: every reader of the latest statement of a symbol reads the statement
\* with the greatest report date among those fetched: the valuation,
\* profitability, growth and health analyses of FundamentalAnalyzer and the
\* value and low_pe filters of the screener.
C6_LatestIsNewest == C6_AnalyzerReadsNewest /\ C6_ScreenerReadsNewest

-----------------------------------------------------------------------------
(* Properties of the technical report *)

\* the most recent analyze call returned a report for at least 20 bars
FullReport ==
    /\ report # None
    /\ Len(Val(report).quotes) >= 20
    /\ ~Val(report).result.raised

TheReport == Val(Val(report).result.value)
TheFrame == TechnicalAnalyzer_quotes_to_dataframe(Val(report).quotes)

\* C7: analyze never returns a partially filled report: for fewer than 20
\* bars it returns, without raising, score 0 with trend, indicators and
\* support/resistance absent; for 20 or more bars it returns a report in
\* which all three are present.
C7_NeverPartial ==
    report # None =>
        LET call == Val(report) IN
        /\ ~call.result.raised
        /\ LET r == Val(call.result.value) IN
           IF Len(call.quotes) < 20
           THEN /\ r.score = 0
                /\ r.trend = None
                /\ r.indicators = None
                /\ r.support_resistance = None
           ELSE /\ r.trend # None
                /\ r.indicators # None
                /\ r.support_resistance # None

\* the score the formula of the specification gives
PatternBonus(patterns) ==
    5 * Cardinality({i \in DOMAIN patterns : patterns[i] \in bullish_patterns})
    - 5 * Cardinality({i \in DOMAIN patterns : patterns[i] \in bearish_patterns})

StatedScore(trend, indicators, patterns) ==
    LET t == CASE trend.direction = "strong-up" -> 20
               [] trend.direction = "weak-up" -> 10
               [] trend.direction = "sideways" -> 0
               [] trend.direction = "weak-down" -> -10
               [] trend.direction = "strong-down" -> -20
        m == IF indicators.macd = None THEN 0
             ELSE IF is_golden_cross(Val(indicators.macd)) THEN 10
             ELSE IF Val(indicators.macd).macd < 0 THEN -5 ELSE 0
        r == IF indicators.rsi = None THEN 0
             ELSE IF FracLT(Val(indicators.rsi), 30) THEN 10
             ELSE IF FracGT(Val(indicators.rsi), 70) THEN -10 ELSE 0
        k == IF indicators.kdj = None THEN 0
             ELSE IF Val(indicators.kdj).j < 20 * Scale THEN 5
             ELSE IF Val(indicators.kdj).j > 80 * Scale THEN -5 ELSE 0
    IN Min2(100, Max2(0, 50 + t + m + r + k + PatternBonus(patterns)))

\* C8: the score of a report is min(100, max(0, 50 + trend bonus + MACD
\* bonus + RSI bonus (10 below 30, -10 above 70) + KDJ bonus + 5 per
\* bullish and - 5 per bearish pattern)), an integer of 0..100.
C8_ScoreFormula ==
    FullReport =>
        /\ TheReport.score \in 0..100
        /\ TheReport.score = StatedScore(Val(TheReport.trend),
                                         Val(TheReport.indicators),
                                         TheReport.patterns)

\* the highs that are strict local maxima among the interior bars of window
\* w and lie above price c, and the lows that are strict local minima and
\* lie below it
InteriorBars(w) == {i \in DOMAIN w : i > 2 /\ i < Len(w) - 1}
HighsAbove(w, c) ==
    {w[i].high : i \in {j \in InteriorBars(w) :
        /\ \A d \in {-2, -1, 1, 2} : w[j].high > w[j + d].high
        /\ w[j].high > c}}
LowsBelow(w, c) ==
    {w[i].low : i \in {j \in InteriorBars(w) :
        /\ \A d \in {-2, -1, 1, 2} : w[j].low < w[j + d].low
        /\ w[j].low < c}}
SetMin(S) == CHOOSE x \in S : \A y \in S : x <= y
SetMax(S) == CHOOSE x \in S : \A y \in S : x >= y

\* C9: resistance_1 is the smallest qualifying local-maximum high above the
\* current close, or the close x 1.05 without one; support_1 the largest
\* qualifying local-minimum low below it, or the close x 0.95; so
\* support_1 < close < resistance_1, resistance_2 >= resistance_1 and
\* support_2 <= support_1 (levels are in hundredths of a tick).
C9_Levels ==
    FullReport =>
        LET df == TheFrame
            w == LastK(df, Min2(60, Len(df)))
            c == w[Len(w)].close
            highs == HighsAbove(w, c)
            lows == LowsBelow(w, c)
            sr == Val(TheReport.support_resistance)
        IN /\ sr.resistance_1 = IF highs # {} THEN SetMin(highs) * 100 ELSE c * 105
           /\ sr.support_1 = IF lows # {} THEN SetMax(lows) * 100 ELSE c * 95
           /\ sr.support_1 < c * 100
           /\ c * 100 < sr.resistance_1
           /\ sr.resistance_2 # None => Val(sr.resistance_2) >= sr.resistance_1
           /\ sr.support_2 # None => Val(sr.support_2) <= sr.support_1

\* a report over more than 60 bars whose four levels are all local extrema
C9_Witness ==
    /\ FullReport
    /\ Len(Val(report).quotes) > 60
    /\ LET sr == Val(TheReport.support_resistance) IN
       /\ sr.resistance_1 # Val(TheReport.trend).current_price * 105
       /\ sr.support_1 # Val(TheReport.trend).current_price * 95
       /\ sr.resistance_2 # None
       /\ sr.support_2 # None

\* the inputs of the decision table, read off the analysed bars
PositiveReturns(df) == positive_days(Closes(df))
ShortUp(ind) == FracGTF(Val(ind.ma5), Val(ind.ma10))
MidUp(ind) == FracGTF(Val(ind.ma10), Val(ind.ma20))

\* C10: with strength = positive returns among the trailing 20 / 20, the
\* direction is strong-up iff strength > 0.65 (14 or more) and MA5 > MA10 >
\* MA20; else weak-up iff strength > 0.55 (12 or more) and MA5 > MA10; else
\* strong-down iff strength < 0.35 (6 or fewer) and MA5 <= MA10 <= MA20;
\* else weak-down iff strength < 0.45 (8 or fewer) and MA5 <= MA10; else
\* sideways.  At 13, 11, 9 and 7 the less extreme category is chosen.
C10_TrendTable ==
    FullReport =>
        LET dir == Val(TheReport.trend).direction
            pos == PositiveReturns(TheFrame)
            short_up == ShortUp(Val(TheReport.indicators))
            mid_up == MidUp(Val(TheReport.indicators))
        IN /\ dir = IF pos >= 14 /\ short_up /\ mid_up THEN "strong-up"
                    ELSE IF pos >= 12 /\ short_up THEN "weak-up"
                    ELSE IF pos <= 6 /\ ~short_up /\ ~mid_up THEN "strong-down"
                    ELSE IF pos <= 8 /\ ~short_up THEN "weak-down"
                    ELSE "sideways"
           /\ pos = 13 => dir # "strong-up"
           /\ pos = 11 => dir \notin {"strong-up", "weak-up"}
           /\ pos = 9 => dir \notin {"strong-down", "weak-down"}
           /\ pos = 7 => dir # "strong-down"

\* a report at strength exactly 0.65 with both averages rising: weak-up
C10_Witness ==
    /\ FullReport
    /\ PositiveReturns(TheFrame) = 13
    /\ ShortUp(Val(TheReport.indicators))
    /\ MidUp(Val(TheReport.indicators))
    /\ Val(TheReport.trend).direction = "weak-up"

-----------------------------------------------------------------------------
(* Properties of the indicator library, on the frames the analyzer builds *)

\* the frame of the most recent analyze call that reached the indicators
IndicatorFrame == report # None /\ Len(Val(report).quotes) >= 20

\* the sum of the losses over the last RsiPeriod price changes
LossSum(df) ==
    LET delta == LastK(Delta(Closes(df)), RsiPeriod)
    IN SumSeq([i \in DOMAIN delta |-> IF delta[i] < 0 THEN -delta[i] ELSE 0])

\* C11: for every close series of at least RsiPeriod bars whose average loss
\* over the last RsiPeriod price changes is zero (a strictly rising series,
\* and a constant one too), calc_rsi returns exactly 100, a number of
\* 0..100, never a not-a-number value.
C11_RsiHundred ==
    IndicatorFrame /\ LossSum(TheFrame) = 0 =>
        /\ ~calc_rsi(TheFrame).nan
        /\ calc_rsi(TheFrame) = Frac(100, 1)

\* the rising half alone: without a loss and with a gain the value is 100
C11_RisingHundred ==
    IndicatorFrame /\ LossSum(TheFrame) = 0
                   /\ (\E i \in 2..Len(TheFrame) :
                          i > Len(TheFrame) - RsiPeriod
                          /\ TheFrame[i].close > TheFrame[i - 1].close) =>
        calc_rsi(TheFrame) = Frac(100, 1)

\* the n-bar window ending at bar i has no range
FlatWindow(df, i) ==
    /\ i >= KdjN
    /\ \A k, l \in (i - KdjN + 1)..i : df[k].high = df[l].low

\* every bar of the frame has the same high, low and close
FlatSeries(df) ==
    \A k, l \in DOMAIN df : df[k].high = df[l].low /\ df[k].close = df[l].close

\* C12: whenever the highest high equals the lowest low over the n-bar
\* window of a bar, the RSV of that bar is 50; for an entirely flat series
\* of at least n bars calc_kdj returns K = D = J = 50.
C12_FlatRsvFifty ==
    IndicatorFrame =>
        /\ \A i \in DOMAIN TheFrame :
               FlatWindow(TheFrame, i) => Rsv(TheFrame, i) = 50 * Scale
        /\ FlatSeries(TheFrame) =>
               calc_kdj(TheFrame) = [k |-> 50 * Scale, d |-> 50 * Scale,
                                     j |-> 50 * Scale]

\* a frame that is not flat as a whole and has a bar whose window has no range
C12_Witness ==
    /\ IndicatorFrame
    /\ ~FlatSeries(TheFrame)
    /\ \E i \in DOMAIN TheFrame : FlatWindow(TheFrame, i)

-----------------------------------------------------------------------------
(* The fundamental analyzer over grids of statement figures *)

\* a figure given in tenths
Tenths(x) == Some((x * Cent) \div 10)

\* PE and PB at, below and above every band limit; None is a missing figure
ValuationPEs == {None, Tenths(-40), Tenths(80), Tenths(150), Tenths(200),
                 Tenths(250), Tenths(300), Tenths(400), Tenths(500)}
ValuationPBs == {None, Tenths(-10), Tenths(8), Tenths(10), Tenths(15),
                 Tenths(20), Tenths(30), Tenths(50), Tenths(60)}

\* one statement with the given PE and PB
ValuationHistories ==
    { [d \in {FirstDay - 30} |->
          Statement(Some(100 * Cent), Some(10 * Cent), Some(12 * Cent), pe, pb,
                    Some(55 * Cent), Some(25 * Cent))] :
      pe \in ValuationPEs, pb \in ValuationPBs }

\* a statement with the given ROE in percent
RoeStatement(roe) ==
    Statement(Some(100 * Cent), Some(10 * Cent), Some(roe * Cent), Some(20 * Cent),
              Tenths(15), Some(55 * Cent), Some(25 * Cent))

\* n quarterly statements, the 3 most recent with one ROE and the older ones
\* with another
RoeHistory(n, recent, older) ==
    [d \in {FirstDay - 30 - 91 * k : k \in 0..(n - 1)} |->
        RoeStatement(IF d > FirstDay - 30 - 91 * 3 THEN recent ELSE older)]

RoeHistories ==
    { RoeHistory(6, recent, older) :
          recent \in {-12, -10, -8, 8, 9, 10, 11, 12}, older \in {-10, 10} }
    \cup { RoeHistory(n, recent, recent) : n \in {2, 3, 5}, recent \in {-10, 10} }

\* a statement with the given revenue and net profit
GrowthStatement(revenue, net_profit) ==
    Statement(Some(revenue * Cent), Some(net_profit * Cent), Some(12 * Cent),
              Some(20 * Cent), Tenths(15), Some(55 * Cent), Some(25 * Cent))

\* two statements a quarter apart
TwoStatements(latest, previous) ==
    [d \in {FirstDay - 30, FirstDay - 121} |->
        IF d = FirstDay - 30 THEN latest ELSE previous]

\* revenue against a previous revenue of 100 at every band limit, and net
\* profit against a previous profit and a previous loss of 10
GrowthHistories ==
    { TwoStatements(GrowthStatement(revenue, 10), GrowthStatement(100, 10)) :
          revenue \in {85, 90, 95, 100, 105, 106, 115, 116, 130, 131} }
    \cup { TwoStatements(GrowthStatement(100, latest), GrowthStatement(100, previous)) :
              latest \in {-12, -10, -8, 8, 10, 12, 14}, previous \in {-10, 10} }
    \cup { TwoStatements(GrowthStatement(100, 10), Blank) }

\* no statement, statements without any figure, and a statement older than
\* a year
SparseHistories ==
    { <<>>,
      [d \in {FirstDay - 30} |-> Blank],
      TwoStatements(Blank, Blank),
      [d \in {FirstDay - 400} |-> Cheap] }

\* a company that does well on every count, and one that does badly
TierHistories ==
    { TwoStatements(
          Statement(Some(150 * Cent), Some(20 * Cent), Some(25 * Cent), Some(8 * Cent),
                    Tenths(8), Some(20 * Cent), Some(50 * Cent)),
          Statement(Some(100 * Cent), Some(10 * Cent), Some(25 * Cent), Some(8 * Cent),
                    Tenths(8), Some(20 * Cent), Some(50 * Cent))),
      TwoStatements(
          Statement(Some(70 * Cent), Some(2 * Cent), Some(2 * Cent), Some(60 * Cent),
                    Some(6 * Cent), Some(85 * Cent), Some(5 * Cent)),
          Statement(Some(100 * Cent), Some(10 * Cent), Some(2 * Cent), Some(60 * Cent),
                    Some(6 * Cent), Some(85 * Cent), Some(5 * Cent))) }

FunHistories ==
    ValuationHistories \cup RoeHistories \cup GrowthHistories \cup SparseHistories
        \cup TierHistories

InitFun ==
    /\ daily_quote = [s \in Symbols |-> OtherTable]
    /\ watchlist = <<>>
    /\ alert = <<>>
    /\ today = FirstDay
    /\ now = 0
    /\ scan = NoScan
    /\ report = None
    /\ \E h \in FunHistories :
           financial = [s \in Symbols |-> IF s = "A" THEN h ELSE OtherHistory]
    /\ stock_info = Listed
    /\ fundamental = None
    /\ screened = None
    /\ _strategies = StrategyRegistry
    /\ held = NothingHeld
    /\ account = NoAccounts
    /\ transaction = <<>>
    /\ position = None
    /\ scheduler = NoScheduler

NextFun ==
    \/ \E years \in AnalyzeYears : FundamentalAnalyzer_analyze("A", years)
    \/ \E st \in NewStatements :
           save_financials("A", <<Financial("A", FilingDate, st)>>)

SpecFun == InitFun /\ [][NextFun]_vars

\* the most recent analyze call found statements
Analyzed == fundamental # None /\ Val(fundamental).fetched # <<>>
TheStatements == Val(fundamental).fetched
TheAnalysis == Val(fundamental).result

StatedPeBonus(pe) ==
    IF pe <= 0 THEN -20
    ELSE IF pe < 15 * Cent THEN 20
    ELSE IF pe < 25 * Cent THEN 10
    ELSE IF pe < 40 * Cent THEN 0
    ELSE -10

\* C13 as stated: +15 for every PB below 1
C13_AsStated ==
    Analyzed =>
        LET latest == Newest(TheStatements)
            v == Val(TheAnalysis.valuation)
        IN (latest.pe # None /\ latest.pb # None) =>
               LET pe == Val(latest.pe)
                   pb == Val(latest.pb)
                   pb_bonus == IF pb < 1 * Cent THEN 15
                               ELSE IF pb < 2 * Cent THEN 5
                               ELSE IF pb > 5 * Cent THEN -10
                               ELSE 0
               IN /\ v.score = Clamp(50 + StatedPeBonus(pe) + pb_bonus)
                  /\ v.is_undervalued = Some(pe > 0 /\ pe < 15 * Cent)

\* C13: for the most recent statement with PE and PB present, the valuation
\* score is clamp(50 + PE bonus + PB bonus, 0, 100); the PE bonus is +20 for
\* 0 < PE < 15, +10 for 15 <= PE < 25, 0 for 25 <= PE < 40, -10 for PE >= 40
\* and -20 for PE <= 0; the PB bonus is +15 for 0 < PB < 1, +5 for
\* 1 <= PB < 2, -10 for PB > 5 and 0 otherwise, a PB of zero or less
\* included; is_undervalued is true exactly when 0 < PE < 15.
C13_Valuation ==
    Analyzed =>
        LET latest == Newest(TheStatements)
            v == Val(TheAnalysis.valuation)
        IN (latest.pe # None /\ latest.pb # None) =>
               LET pe == Val(latest.pe)
                   pb == Val(latest.pb)
                   pb_bonus == IF pb <= 0 THEN 0
                               ELSE IF pb < 1 * Cent THEN 15
                               ELSE IF pb < 2 * Cent THEN 5
                               ELSE IF pb > 5 * Cent THEN -10
                               ELSE 0
               IN /\ v.score = Clamp(50 + StatedPeBonus(pe) + pb_bonus)
                  /\ v.is_undervalued = Some(pe > 0 /\ pe < 15 * Cent)

\* a valuation of a statement with a negative PB and a PE of exactly 15
C13_Witness ==
    /\ Analyzed
    /\ Newest(TheStatements).pb # None
    /\ Val(Newest(TheStatements).pb) < 0
    /\ Newest(TheStatements).pe = Some(15 * Cent)
    /\ Val(TheAnalysis.valuation).score = 60

\* the ROE values the trend is computed from: those present among the 12
\* most recent statements, most recent first
RoeValues ==
    NotNone(Slice(Reverse(SortedBy(Reverse(TheStatements),
                                   LAMBDA f : f.report_date)), 0, 12),
            LAMBDA f : f.roe)

\* the trend as stated, for the sums r and o of the 3 most recent values and
\* of the following 3: more than 10% of the older mean above or below it
StatedTrend(values) ==
    IF Len(values) < 6 THEN "stable"
    ELSE LET r == SumSeq(Slice(values, 0, 3))
             o == SumSeq(Slice(values, 3, 6))
         IN IF 10 * r > 10 * o + Abs(o) THEN "rising"
            ELSE IF 10 * r < 10 * o - Abs(o) THEN "falling"
            ELSE "stable"

\* C14: roe_trend is "rising" only when the mean of the 3 most recent ROE
\* values is more than 10% higher than, and so strictly greater than, the
\* mean of the following 3, "falling" only when it is more than 10% lower,
\* and "stable" in every other case, equal means and fewer than 6 values
\* included; for negative ROE values as for positive ones.
C14_RoeTrend ==
    Analyzed =>
        LET trend == Val(TheAnalysis.profitability).roe_trend
            values == RoeValues
        IN /\ trend = StatedTrend(values)
           /\ trend = "rising" =>
                  /\ Len(values) >= 6
                  /\ SumSeq(Slice(values, 0, 3)) > SumSeq(Slice(values, 3, 6))
           /\ trend = "falling" =>
                  /\ Len(values) >= 6
                  /\ SumSeq(Slice(values, 0, 3)) < SumSeq(Slice(values, 3, 6))

\* the same for histories whose ROE values are all positive
C14_PositiveRoeTrend ==
    (Analyzed /\ \A i \in DOMAIN RoeValues : RoeValues[i] > 0) =>
        Val(TheAnalysis.profitability).roe_trend = StatedTrend(RoeValues)

\* the statements of the most recent analyze call, most recent first
Ordered == Reverse(SortedBy(Reverse(TheStatements), LAMBDA f : f.report_date))

\* (latest - previous) / previous * 100 > k and < k, by cross-multiplication
PctGT(latest, previous, k) ==
    IF previous > 0 THEN (latest - previous) * 100 > k * previous
    ELSE (latest - previous) * 100 < k * previous
PctLT(latest, previous, k) ==
    IF previous > 0 THEN (latest - previous) * 100 < k * previous
    ELSE (latest - previous) * 100 > k * previous

StatedYoYBonus(latest, previous) ==
    IF PctGT(latest, previous, 30) THEN 20
    ELSE IF PctGT(latest, previous, 15) THEN 10
    ELSE IF PctGT(latest, previous, 5) THEN 5
    ELSE IF PctLT(latest, previous, -10) THEN -15
    ELSE IF PctLT(latest, previous, 0) THEN -5
    ELSE 0

\* the figure is (latest - previous) / previous * 100 and its sign is the
\* sign of latest - previous
StatedYoY(yoy, latest, previous) ==
    /\ yoy # None
    /\ Val(yoy).num * previous = (latest - previous) * 100 * Val(yoy).den
    /\ FracGT(Val(yoy), 0) <=> latest > previous
    /\ FracLT(Val(yoy), 0) <=> latest < previous

\* both figures of both statements are present
BothPresent(latest, previous) ==
    /\ Truthy(latest.revenue) /\ Truthy(previous.revenue)
    /\ Truthy(latest.net_profit) /\ Truthy(previous.net_profit)

\* C15: with fewer than 2 statements the growth score is 50 and every
\* growth figure is absent; with 2 or more, revenue and profit YoY are
\* (latest - previous) / previous * 100 over the two most recent statements,
\* each is positive exactly when the latest value is greater than the
\* previous one and negative exactly when it is smaller, and each adds
\* +20 / +10 / +5 for YoY > 30 / > 15 / > 5, -15 for YoY < -10 and -5 for
\* -10 <= YoY < 0 to a base of 50, the total clamped to 0..100.
C15_Growth ==
    Analyzed =>
        LET g == Val(TheAnalysis.growth) IN
        IF Len(Ordered) < 2
        THEN g = [revenue_yoy |-> None, profit_yoy |-> None,
                  revenue_cagr_3y |-> None, score |-> 50]
        ELSE LET latest == Ordered[1]
                 previous == Ordered[2]
             IN BothPresent(latest, previous) =>
                    /\ StatedYoY(g.revenue_yoy, Val(latest.revenue),
                                 Val(previous.revenue))
                    /\ StatedYoY(g.profit_yoy, Val(latest.net_profit),
                                 Val(previous.net_profit))
                    /\ g.revenue_cagr_3y = None =>
                           g.score = Clamp(50 + StatedYoYBonus(Val(latest.revenue),
                                                               Val(previous.revenue))
                                              + StatedYoYBonus(Val(latest.net_profit),
                                                               Val(previous.net_profit)))

\* the same where the previous revenue and the previous profit are positive
C15_GrowthFromPositive ==
    (/\ Analyzed
     /\ Len(Ordered) >= 2
     /\ BothPresent(Ordered[1], Ordered[2])
     /\ Val(Ordered[2].revenue) > 0
     /\ Val(Ordered[2].net_profit) > 0) =>
        LET g == Val(TheAnalysis.growth) IN
        /\ StatedYoY(g.revenue_yoy, Val(Ordered[1].revenue), Val(Ordered[2].revenue))
        /\ StatedYoY(g.profit_yoy, Val(Ordered[1].net_profit),
                     Val(Ordered[2].net_profit))
        /\ g.revenue_cagr_3y = None =>
               g.score = Clamp(50 + StatedYoYBonus(Val(Ordered[1].revenue),
                                                   Val(Ordered[2].revenue))
                                  + StatedYoYBonus(Val(Ordered[1].net_profit),
                                                   Val(Ordered[2].net_profit)))

\* the four sub-scores of the most recent analysis
SubScores ==
    << Val(TheAnalysis.valuation).score, Val(TheAnalysis.profitability).score,
       Val(TheAnalysis.growth).score, Val(TheAnalysis.financial_health).score >>

\* 100 times 0.25 x valuation + 0.30 x profitability + 0.25 x growth
\* + 0.20 x health
Weighted100 ==
    25 * SubScores[1] + 30 * SubScores[2] + 25 * SubScores[3] + 20 * SubScores[4]

\* C16: the overall score is the integer nearest to 0.25 x valuation +
\* 0.30 x profitability + 0.25 x growth + 0.20 x health; it lies between
\* the smallest and the largest of the four sub-scores and within 0..100.
C16_OverallScore ==
    Analyzed =>
        LET overall == TheAnalysis.overall_score IN
        /\ \A i \in 1..4 : SubScores[i] \in 0..100
        /\ Abs(100 * overall - Weighted100) <= 50
        /\ SeqMin(SubScores) <= overall
        /\ overall <= SeqMax(SubScores)
        /\ overall \in 0..100

\* an analysis whose weighted sum lies above the half between two integers
C16_Witness ==
    /\ Analyzed
    /\ Weighted100 % 100 > 50
    /\ TheAnalysis.overall_score = Weighted100 \div 100 + 1

\* a statement without any figure
NoFigures(f) ==
    /\ f.revenue = None /\ f.net_profit = None /\ f.roe = None /\ f.pe = None
    /\ f.pb = None /\ f.debt_ratio = None /\ f.gross_margin = None

-----------------------------------------------------------------------------
(* The screener over grids of statement figures and price histories *)

ScreenPEs == {None, Tenths(-40), Tenths(80), Tenths(100), Tenths(150),
              Tenths(160), Tenths(300), Tenths(400)}
ScreenPBs == {None, Tenths(8), Tenths(20), Tenths(30)}

\* one statement with the given PE and PB; two statements within the year;
\* two statements a quarter apart with growing and with shrinking figures
ScreenHistories ==
    { [d \in {FirstDay - 30} |->
          Statement(Some(100 * Cent), Some(10 * Cent), Some(12 * Cent), pe, pb,
                    Some(55 * Cent), Some(25 * Cent))] :
      pe \in ScreenPEs, pb \in ScreenPBs }
    \cup { <<>>, TwoInYear, TwoStatements(Cheap, Dear),
           TwoStatements(GrowthStatement(130, 14), GrowthStatement(100, 10)),
           TwoStatements(GrowthStatement(400, 40), GrowthStatement(100, 10)),
           TwoStatements(GrowthStatement(90, 8), GrowthStatement(100, 10)) }

\* price histories: rising, flat, too short, none
ScreenTables ==
    { GenTable(21, Shape(14, 2, 1, None, 1, 1)),
      GenTable(21, Shape(0, 0, 0, None, 1, 1)),
      GenTable(19, Shape(14, 2, 1, None, 1, 1)),
      <<>> }

InitScreen ==
    /\ \E t \in ScreenTables :
           daily_quote = [s \in Symbols |-> IF s = "A" THEN t ELSE OtherTable]
    /\ watchlist = <<[symbol |-> "A", alert_price_high |-> None,
                      alert_price_low |-> None],
                     [symbol |-> "B", alert_price_high |-> None,
                      alert_price_low |-> None]>>
    /\ alert = <<>>
    /\ today = FirstDay
    /\ now = 0
    /\ scan = NoScan
    /\ report = None
    /\ \E h \in ScreenHistories :
           financial = [s \in Symbols |-> IF s = "A" THEN h ELSE OtherHistory]
    /\ daily_quote["A"] # GenTable(21, Shape(14, 2, 1, None, 1, 1))
           => financial["A"] = TwoInYear
    /\ stock_info = Listed
    /\ fundamental = None
    /\ screened = None
    /\ _strategies = StrategyRegistry
    /\ held = NothingHeld
    /\ account = NoAccounts
    /\ transaction = <<>>
    /\ position = None
    /\ scheduler = NoScheduler

NextScreen ==
    \/ \E call \in ScreenCalls : screen(call[1], call[2], call[3])
    \/ \E st \in NewStatements :
           save_financials("A", <<Financial("A", FilingDate, st)>>)

SpecScreen == InitScreen /\ [][NextScreen]_vars

\* the most recent screen call ran the given strategy
Screened(strategy_id) ==
    screened # None /\ Val(screened).strategy_id = strategy_id

TheCall == Val(screened)
TheParams == Merged(Val(get_strategy(TheCall.strategy_id)).params, TheCall.params)
TheResult == Val(TheCall.result.value)
PoolSymbols == {TheCall.pool[i].symbol : i \in DOMAIN TheCall.pool}

\* the entries of a symbol in the result
EntriesOf(symbol) == SelectSeq(TheResult, LAMBDA e : e.symbol = symbol)

\* the most recent statement of the last year of a symbol, if any
Latest(symbol) ==
    IF TheCall.fetched[symbol] = <<>> THEN None
    ELSE Some(Newest(TheCall.fetched[symbol]))

FracEq(x, y) == ~x.nan /\ ~y.nan /\ x.num * y.den = y.num * x.den
FracAdd(x, y) == Ratio(x.num * y.den + y.num * x.den, x.den * y.den)

RECURSIVE FracSum(_)
FracSum(s) == IF s = <<>> THEN Frac(0, 1) ELSE FracAdd(Head(s), FracSum(Tail(s)))

\* clamp((1 - pe / max_pe) x 50 + (1 - pb / max_pb) x 50, 0, 100)
StatedValueScore(pe, pb, max_pe, max_pb) ==
    ClampScore(FracAdd(Ratio(50 * (max_pe * Cent - pe), max_pe * Cent),
                       Ratio(50 * (max_pb * Cent - pb), max_pb * Cent)))

\* the stated filter and score of the value strategy for one pool symbol
ValueAsStated(symbol) ==
    LET max_pe == TheParams.max_pe
        max_pb == TheParams.max_pb
        latest == Latest(symbol)
        passes == /\ latest # None
                  /\ Val(latest).pe # None /\ Val(latest).pb # None
                  /\ Val(Val(latest).pe) <= max_pe * Cent
                  /\ Val(Val(latest).pb) <= max_pb * Cent
    IN IF passes
       THEN LET pe == Val(Val(latest).pe)
                pb == Val(Val(latest).pb)
            IN /\ Len(EntriesOf(symbol)) = 1
               /\ FracEq(EntriesOf(symbol)[1].score,
                         StatedValueScore(pe, pb, max_pe, max_pb))
               /\ (pe < max_pe * Cent \/ pb < max_pb * Cent)
                      => FracGT(EntriesOf(symbol)[1].score, 0)
       ELSE EntriesOf(symbol) = <<>>

\* C18: with the value strategy a pool symbol is in the result if and only
\* if its latest statement has PE and PB present with PE <= maxPE and
\* PB <= maxPB; its score is clamp((1 - PE/maxPE) x 50 + (1 - PB/maxPB) x 50,
\* 0, 100), which is above 0 when PE < maxPE or PB < maxPB.
C18_ValueFilter ==
    Screened("value") =>
        /\ ~TheCall.result.raised
        /\ \A symbol \in PoolSymbols : ValueAsStated(symbol)
        /\ \A i \in DOMAIN TheResult : TheResult[i].symbol \in PoolSymbols

\* the same for the pool symbols with at most one statement in the last year
C18_ValueFilterOneStatement ==
    Screened("value") =>
        \A symbol \in PoolSymbols :
            Len(TheCall.fetched[symbol]) <= 1 => ValueAsStated(symbol)

\* the stated filter and score of the low_pe strategy for one pool symbol
LowPeAsStated(symbol) ==
    LET max_pe == TheParams.max_pe
        latest == Latest(symbol)
        passes == /\ latest # None
                  /\ Val(latest).pe # None
                  /\ Val(Val(latest).pe) <= max_pe * Cent
    IN IF passes
       THEN LET pe == Val(Val(latest).pe)
            IN /\ Len(EntriesOf(symbol)) = 1
               /\ FracEq(EntriesOf(symbol)[1].score,
                         Ratio(Max2(0, 100 * Cent - 5 * pe), Cent))
       ELSE EntriesOf(symbol) = <<>>

\* C19: with the low_pe strategy every pool symbol whose latest statement
\* has a PE present with PE <= maxPE, whatever its sign, is in the result
\* with score max(0, 100 - 5 x PE), and no symbol with PE > maxPE or without
\* a PE is.
C19_LowPe ==
    Screened("low_pe") =>
        /\ ~TheCall.result.raised
        /\ \A symbol \in PoolSymbols : LowPeAsStated(symbol)

\* the same for the pool symbols with at most one statement in the last
\* year whose PE is not negative
C19_LowPePositive ==
    Screened("low_pe") =>
        \A symbol \in PoolSymbols :
            (/\ Len(TheCall.fetched[symbol]) <= 1
             /\ (Latest(symbol) # None /\ Val(Latest(symbol)).pe # None)
                    => Val(Val(Latest(symbol)).pe) > 0)
                => LowPeAsStated(symbol)

FourStrategies == {"value", "growth", "low_pe", "momentum"}

\* the result of a strategy on a pool of one stock, in the current database
ScreenAlone(strategy_id, params, stock) ==
    CASE strategy_id = "value" -> _screen_value_strategy(<<stock>>, params)
      [] strategy_id = "growth" -> _screen_growth_strategy(<<stock>>, params)
      [] strategy_id = "low_pe" -> _screen_low_pe_strategy(<<stock>>, params)
      [] strategy_id = "momentum" -> _screen_momentum_strategy(<<stock>>, params)

\* the evaluation of a pool symbol finds no data or raises
NoEvaluation(strategy_id, symbol) ==
    CASE strategy_id \in {"value", "low_pe"} -> get_financials(symbol, 1) = <<>>
      [] strategy_id = "growth" -> get_financials(symbol, 3) = <<>>
      [] strategy_id = "momentum" ->
            \/ analyze_on(symbol, get_quotes(symbol, 60)).raised
            \/ Len(get_quotes(symbol, 60)) < 20

\* what a call of screen with one of the four strategies returns
ScreenOutcome(call) ==
    LET result == Val(call.result.value)
        params == Merged(Val(get_strategy(call.strategy_id)).params, call.params)
    IN /\ \A i \in DOMAIN result :
              /\ FracGE(result[i].score, 0)
              /\ FracLE(result[i].score, 100)
              /\ i > 1 => ~FracGTF(result[i].score, result[i - 1].score)
       /\ \A i \in DOMAIN call.pool :
              LET mine == SelectSeq(result, LAMBDA e : e.symbol = call.pool[i].symbol)
              IN /\ mine = ScreenAlone(call.strategy_id, params, call.pool[i])
                 /\ NoEvaluation(call.strategy_id, call.pool[i].symbol) => mine = <<>>

\* C20: for each of the four strategies the list screen returns is ordered
\* by non-increasing score with every score in 0..100, and a pool symbol
\* whose data is missing, whose filter fails or whose evaluation raises is
\* absent from it: screen does not raise, and the entries of every pool
\* symbol are those it gets when screened alone.
C20_SortedAndIsolated ==
    [][(/\ screened' # None
        /\ Val(screened').strategy_id \in FourStrategies
        /\ UNCHANGED <<daily_quote, financial, stock_info, watchlist, today>>) =>
           /\ ~Val(screened').result.raised
           /\ ScreenOutcome(Val(screened'))]_vars

\* a momentum screen in which the analysis of A raised and B is listed
C20_Witness ==
    /\ Screened("momentum")
    /\ ~TheCall.result.raised
    /\ analyze_on("A", get_quotes("A", 60)).raised
    /\ EntriesOf("A") = <<>>
    /\ Len(EntriesOf("B")) = 1

-----------------------------------------------------------------------------
(* The strategy registry and the callers of its methods.  A Strategy is an
   object: the registry and the caller refer to it by its position in
   _strategies. *)

\* StrategyRegistry.get_all_strategies: cls._strategies.copy(), a new list
\* of the same objects
get_all_strategies ==
    /\ held' = [held EXCEPT !.list = Some([i \in DOMAIN _strategies |-> i])]
    /\ UNCHANGED <<daily_quote, watchlist, alert, today, now, scan, report,
                   financial, stock_info, fundamental, screened, _strategies,
                   account, transaction, position, scheduler>>

\* StrategyRegistry.get_strategy called by a user: the object itself
get_strategy_call(strategy_id) ==
    LET found == {i \in DOMAIN _strategies : _strategies[i].id = strategy_id}
    IN /\ held' = [held EXCEPT !.strategy =
                       IF found = {} THEN None
                       ELSE Some(CHOOSE i \in found : \A j \in found : i <= j)]
       /\ UNCHANGED <<daily_quote, watchlist, alert, today, now, scan, report,
                      financial, stock_info, fundamental, screened, _strategies,
                      account, transaction, position, scheduler>>

\* the caller removes the last element of the list it was given
list_pop ==
    /\ held.list # None
    /\ Val(held.list) # <<>>
    /\ held' = [held EXCEPT !.list = Some(DropLast(Val(held.list)))]
    /\ UNCHANGED <<daily_quote, watchlist, alert, today, now, scan, report,
                   financial, stock_info, fundamental, screened, _strategies,
                   account, transaction, position, scheduler>>

\* the objects the caller can reach
Reachable ==
    (IF held.list = None THEN {} ELSE {Val(held.list)[i] : i \in DOMAIN Val(held.list)})
    \cup (IF held.strategy = None THEN {} ELSE {Val(held.strategy)})

\* the caller assigns strategy.params[key] = value on an object it reaches
params_setitem(i, key, value) ==
    /\ i \in Reachable
    /\ _strategies' = [_strategies EXCEPT ![i].params = Merged(@, [k \in {key} |-> value])]
    /\ UNCHANGED <<daily_quote, watchlist, alert, today, now, scan, report,
                   financial, stock_info, fundamental, screened, held,
                   account, transaction, position, scheduler>>

RegistryIds == {"value", "low_pe", "dividend"}
RegistryIndices == DOMAIN StrategyRegistry
CallerKeys == {"max_pe"}
CallerValues == {40}

InitRegistry ==
    /\ daily_quote = [s \in Symbols |-> OtherTable]
    /\ watchlist = <<[symbol |-> "A", alert_price_high |-> None,
                      alert_price_low |-> None],
                     [symbol |-> "B", alert_price_high |-> None,
                      alert_price_low |-> None]>>
    /\ alert = <<>>
    /\ today = FirstDay
    /\ now = 0
    /\ scan = NoScan
    /\ report = None
    /\ \E h \in {[d \in {FirstDay - 30} |-> Cheap], [d \in {FirstDay - 30} |-> Dear]} :
           financial = [s \in Symbols |-> IF s = "A" THEN h ELSE OtherHistory]
    /\ stock_info = Listed
    /\ fundamental = None
    /\ screened = None
    /\ _strategies = StrategyRegistry
    /\ held = NothingHeld
    /\ account = NoAccounts
    /\ transaction = <<>>
    /\ position = None
    /\ scheduler = NoScheduler

NextRegistry ==
    \/ get_all_strategies
    \/ \E strategy_id \in RegistryIds : get_strategy_call(strategy_id)
    \/ list_pop
    \/ \E i \in RegistryIndices, key \in CallerKeys, value \in CallerValues :
           params_setitem(i, key, value)
    \/ \E call \in ScreenCalls : screen(call[1], call[2], call[3])

SpecRegistry == InitRegistry /\ [][NextRegistry]_vars

\* the ids of the registry, in order
CatalogIds == [i \in DOMAIN _strategies |-> _strategies[i].id]

\* the default parameters a strategy is created with
OriginalDefaults(strategy_id) ==
    SelectSeq(StrategyRegistry, LAMBDA st : st.id = strategy_id)[1].params

\* the entries of every pool symbol are those of the strategy run with the
\* overrides of the call merged onto the original defaults
MergedOntoOriginal(call) ==
    /\ ~call.result.raised
    /\ \A i \in DOMAIN call.pool :
           SelectSeq(Val(call.result.value), LAMBDA e : e.symbol = call.pool[i].symbol)
               = ScreenAlone(call.strategy_id,
                             Merged(OriginalDefaults(call.strategy_id), call.params),
                             call.pool[i])

\* C21: the catalog is fixed: after any sequence of get_all_strategies,
\* get_strategy and screen calls and any mutation by callers of the objects
\* these return, the registry holds exactly the strategies value, growth,
\* low_pe and momentum with their original default parameters, and screen
\* merges the overrides onto these original defaults.
C21_CatalogFixed ==
    /\ [](_strategies = StrategyRegistry)
    /\ [][(/\ screened' # None
           /\ Val(screened').strategy_id \in FourStrategies) =>
             MergedOntoOriginal(Val(screened'))]_vars

\* what no caller can change: the list of the registry and the ids in it
C21_ListFixed ==
    CatalogIds = <<"value", "growth", "low_pe", "momentum">>

-----------------------------------------------------------------------------
(* Portfolio: the tables accounts and transactions, TransactionService and
   PositionService.  Money is in whole currency units, which the float
   columns of the database hold exactly; the cost of a position is an exact
   fraction.  The variable position holds what a PositionService call
   returned on the current tables: it is dropped when they or the clock
   change. *)

MaxAccounts == 2        \* accounts created per behaviour
MaxTransactions == 3    \* transactions recorded per behaviour
MaxTicks == 1           \* seconds that pass on the database clock

BUY == "BUY"
SELL == "SELL"

Others == <<daily_quote, watchlist, alert, scan, report, financial,
            stock_info, fundamental, screened, _strategies, held, scheduler>>

\* AccountManager.create_account: the cash of a new account is its initial
\* capital; the id is the next row id
create_account(initial_capital) ==
    /\ Len(account) < MaxAccounts
    /\ account' = Append(account, [id |-> Len(account) + 1,
                                   initial_capital |-> initial_capital,
                                   current_cash |-> initial_capital])
    /\ position' = None
    /\ UNCHANGED <<transaction, today, now>>
    /\ UNCHANGED Others

\* the model Transaction as a caller builds it
Transaction(account_id, symbol, trade_type, shares, price, amount, fee, trade_date) ==
    [account_id |-> account_id, symbol |-> symbol, trade_type |-> trade_type,
     shares |-> shares, price |-> price, amount |-> amount, fee |-> fee,
     trade_date |-> trade_date]

\* the row of a transaction: id from the row counter, created_at from the
\* clock of the database
TransactionRow(tx) ==
    [id |-> Len(transaction) + 1, account_id |-> tx.account_id,
     symbol |-> tx.symbol, trade_type |-> tx.trade_type, shares |-> tx.shares,
     price |-> tx.price, amount |-> tx.amount, fee |-> tx.fee,
     trade_date |-> tx.trade_date, created_at |-> <<today, now>>]

\* the change of cash with the fee taken from it
cash_change_with_fee(tx) ==
    IF tx.trade_type = BUY THEN -(tx.amount + tx.fee) ELSE tx.amount - tx.fee

\* cash_change = -amount for a BUY, amount otherwise
cash_change(tx) ==
    IF tx.trade_type = BUY THEN -tx.amount ELSE tx.amount

\* UPDATE accounts SET current_cash = current_cash + :change WHERE id = :id
update_account_cash(account_id, change) ==
    [i \in DOMAIN account |->
        IF account[i].id = account_id
        THEN [account[i] EXCEPT !.current_cash = @ + change]
        ELSE account[i]]

\* Repository.add_transaction: the insert fails on the foreign key when the
\* account does not exist; otherwise the row is stored and the cash updated
add_transaction(tx) ==
    /\ Len(transaction) < MaxTransactions
    /\ IF \E i \in DOMAIN account : account[i].id = tx.account_id
       THEN /\ transaction' = Append(transaction, TransactionRow(tx))
            /\ account' = update_account_cash(tx.account_id, cash_change(tx))
       ELSE UNCHANGED <<transaction, account>>
    /\ position' = None
    /\ UNCHANGED <<today, now>>
    /\ UNCHANGED Others

\* TransactionService.buy_stock
buy_stock(account_id, symbol, shares, price, fee) ==
    add_transaction(Transaction(account_id, symbol, BUY, shares, price,
                                price * shares, fee, today))

\* TransactionService.sell_stock
sell_stock(account_id, symbol, shares, price, fee) ==
    add_transaction(Transaction(account_id, symbol, SELL, shares, price,
                                price * shares, fee, today))

\* the clock of the database moves to the next second
Tick ==
    /\ now < MaxTicks
    /\ now' = now + 1
    /\ position' = None
    /\ UNCHANGED <<account, transaction, today>>
    /\ UNCHANGED Others

\* row a may come before row b under
\* ORDER BY trade_date DESC, created_at DESC
Before(a, b) ==
    \/ a.trade_date > b.trade_date
    \/ /\ a.trade_date = b.trade_date
       /\ \/ a.created_at[1] > b.created_at[1]
          \/ /\ a.created_at[1] = b.created_at[1]
             /\ a.created_at[2] >= b.created_at[2]

\* the lists Repository.get_transactions(account_id, limit) can return: rows
\* equal in trade_date and created_at come in any order
get_transactions(account_id, limit) ==
    LET ids == {i \in DOMAIN transaction : transaction[i].account_id = account_id}
        n == Cardinality(ids)
        orders == {f \in [1..n -> ids] :
                      /\ \A j, k \in 1..n : j # k => f[j] # f[k]
                      /\ \A k \in 1..(n - 1) :
                             Before(transaction[f[k]], transaction[f[k + 1]])}
    IN {List([k \in 1..Min2(n, limit) |-> transaction[f[k]]]) : f \in orders}

\* sorted(transactions, key=lambda x: x.trade_date)
sorted_by_trade_date(transactions) ==
    SortedBy(transactions, LAMBDA tx : tx.trade_date)

\* one turn of the loop of _calculate_position on (total_shares, total_cost)
PositionStep(acc, tx) ==
    IF tx.trade_type = BUY
    THEN [total_shares |-> acc.total_shares + tx.shares,
          total_cost |-> FracAdd(acc.total_cost, Frac(tx.amount + tx.fee, 1))]
    ELSE LET avg_cost == IF acc.total_shares > 0
                         THEN Ratio(acc.total_cost.num,
                                    acc.total_cost.den * acc.total_shares)
                         ELSE Frac(0, 1)
         IN [total_shares |-> acc.total_shares - tx.shares,
             total_cost |-> FracAdd(acc.total_cost,
                                Ratio(-(avg_cost.num * tx.shares), avg_cost.den))]

RECURSIVE PositionLoop(_, _)
PositionLoop(acc, txs) ==
    IF txs = <<>> THEN acc
    ELSE PositionLoop(PositionStep(acc, Head(txs)), Tail(txs))

\* total_shares and total_cost after the loop of _calculate_position
PositionTotals(transactions) ==
    PositionLoop([total_shares |-> 0, total_cost |-> Frac(0, 1)],
                 sorted_by_trade_date(transactions))

\* PositionService._calculate_position: None without shares, an error when
\* Position rejects a negative cost
_calculate_position(symbol, transactions) ==
    LET totals == PositionTotals(transactions)
        total_shares == totals.total_shares
        cost_value == totals.total_cost
        latest_quote == get_latest_quote(symbol)
        current_price == IF latest_quote # None THEN Val(latest_quote).close ELSE 0
        market_value == current_price * total_shares
        unrealized_pnl == FracAdd(Frac(market_value, 1),
                                  Frac(-cost_value.num, cost_value.den))
        info == get_stock_info(symbol)
    IN IF total_shares <= 0 THEN Returned(None)
       ELSE IF cost_value.num < 0 THEN Raised
       ELSE Returned(Some(
                [symbol |-> symbol,
                 name |-> IF info # None THEN Val(info).name ELSE symbol,
                 shares |-> total_shares,
                 avg_cost |-> Ratio(cost_value.num, cost_value.den * total_shares),
                 current_price |-> current_price,
                 market_value |-> market_value,
                 cost_value |-> cost_value,
                 unrealized_pnl |-> unrealized_pnl,
                 unrealized_pnl_pct |->
                     IF cost_value.num > 0
                     THEN Ratio(unrealized_pnl.num * 100 * cost_value.den,
                                unrealized_pnl.den * cost_value.num)
                     ELSE Frac(0, 1)]))

\* the symbols of a list of transactions, in the order of first occurrence
SymbolsOf(transactions) ==
    LET first == SelectSeq(Indices(transactions),
                     LAMBDA i : \A j \in 1..(i - 1) :
                                    transactions[j].symbol # transactions[i].symbol)
    IN List([k \in DOMAIN first |-> transactions[first[k]].symbol])

\* PositionService.get_positions on the list the repository returned
get_positions_on(transactions) ==
    LET symbols == SymbolsOf(transactions)
        each == List([k \in DOMAIN symbols |->
                    _calculate_position(symbols[k],
                        SelectSeq(transactions, LAMBDA tx : tx.symbol = symbols[k]))])
        held_now == SelectSeq(each, LAMBDA pos : ~pos.raised /\ Val(pos.value) # None)
    IN IF \E k \in DOMAIN each : each[k].raised THEN Raised
       ELSE Returned(List([k \in DOMAIN held_now |-> Val(Val(held_now[k].value))]))

\* Repository.get_account: None when there is no row, an error when Account
\* rejects a negative amount
get_account(account_id) ==
    LET rows == SelectSeq(account, LAMBDA row : row.id = account_id)
    IN IF rows = <<>> THEN Returned(None)
       ELSE IF rows[1].initial_capital < 0 \/ rows[1].current_cash < 0 THEN Raised
       ELSE Returned(Some(rows[1]))

\* sum(p.market_value for p in positions) and its like
SumOfValues(positions) ==
    SumSeq(List([k \in DOMAIN positions |-> positions[k].market_value]))
SumOfCosts(positions) ==
    FracSum(List([k \in DOMAIN positions |-> positions[k].cost_value]))
SumOfPnl(positions) ==
    FracSum(List([k \in DOMAIN positions |-> positions[k].unrealized_pnl]))

\* the AccountSummary of an account with the given cash and positions, or
\* the error of its validation
AccountSummary(cash, positions) ==
    IF cash + SumOfValues(positions) < 0 \/ cash < 0 \/ SumOfValues(positions) < 0
       \/ SumOfCosts(positions).num < 0
    THEN Raised
    ELSE Returned([total_assets |-> cash + SumOfValues(positions), cash |-> cash,
                   positions_value |-> SumOfValues(positions),
                   total_pnl |-> SumOfPnl(positions),
                   total_pnl_pct |->
                       IF SumOfCosts(positions).num > 0
                       THEN Ratio(SumOfPnl(positions).num * 100 * SumOfCosts(positions).den,
                                  SumOfPnl(positions).den * SumOfCosts(positions).num)
                       ELSE Frac(0, 1),
                   total_cost |-> SumOfCosts(positions)])

\* PositionService.get_account_summary on the list the repository returned:
\* an error when get_account or get_positions raises or there is no account
get_account_summary_on(account_id, transactions) ==
    IF get_account(account_id).raised THEN Raised
    ELSE IF Val(get_account(account_id).value) = None THEN Raised
    ELSE IF get_positions_on(transactions).raised THEN Raised
    ELSE AccountSummary(Val(Val(get_account(account_id).value)).current_cash,
                        Val(get_positions_on(transactions).value))

\* PositionService.get_positions(account_id); the call is recorded with the
\* list the repository returned
get_positions(account_id) ==
    /\ \E fetched \in get_transactions(account_id, 10000) :
           position' = Some([call |-> "get_positions", account_id |-> account_id,
                             fetched |-> fetched,
                             result |-> get_positions_on(fetched)])
    /\ UNCHANGED <<account, transaction, today, now>>
    /\ UNCHANGED Others

\* PositionService.get_account_summary(account_id)
get_account_summary(account_id) ==
    /\ \E fetched \in get_transactions(account_id, 10000) :
           position' = Some([call |-> "get_account_summary",
                             account_id |-> account_id, fetched |-> fetched,
                             result |-> get_account_summary_on(account_id, fetched)])
    /\ UNCHANGED <<account, transaction, today, now>>
    /\ UNCHANGED Others

Capitals == {1500}
AccountIds == 1..MaxAccounts
\* trades placed through buy_stock and sell_stock: account, symbol, shares,
\* price, fee
Trades ==
    { <<1, "A", 100, 10, 5>>, <<1, "A", 50, 12, 0>> }
\* transactions recorded through add_transaction: a purchase of the day
\* before, and one of another account whose amount is not price x shares
Recorded ==
    { Transaction(1, "A", BUY, 100, 10, 1000, 5, FirstDay - 1),
      Transaction(2, "B", BUY, 50, 10, 510, 5, FirstDay) }

InitPortfolio ==
    /\ daily_quote = [s \in Symbols |-> IF s = "A" THEN OtherTable ELSE <<>>]
    /\ watchlist = <<>>
    /\ alert = <<>>
    /\ today = FirstDay
    /\ now = 0
    /\ scan = NoScan
    /\ report = None
    /\ financial = [s \in Symbols |-> <<>>]
    /\ stock_info = [Listed EXCEPT !["B"] = None]
    /\ fundamental = None
    /\ screened = None
    /\ _strategies = StrategyRegistry
    /\ held = NothingHeld
    /\ account = NoAccounts
    /\ transaction = <<>>
    /\ position = None
    /\ scheduler = NoScheduler

NextPortfolio ==
    \/ \E initial_capital \in Capitals : create_account(initial_capital)
    \/ \E o \in Trades : buy_stock(o[1], o[2], o[3], o[4], o[5])
    \/ \E o \in Trades : sell_stock(o[1], o[2], o[3], o[4], o[5])
    \/ \E tx \in Recorded : add_transaction(tx)
    \/ \E account_id \in AccountIds : get_positions(account_id)
    \/ \E account_id \in AccountIds : get_account_summary(account_id)
    \/ Tick

SpecPortfolio == InitPortfolio /\ [][NextPortfolio]_vars

\* the trades of two accounts in two symbols, for the cash of the accounts
LedgerTrades ==
    Trades \cup { <<1, "B", 50, 10, 0>>, <<2, "A", 50, 12, 5>> }

NextLedger ==
    \/ \E initial_capital \in Capitals : create_account(initial_capital)
    \/ \E o \in LedgerTrades : buy_stock(o[1], o[2], o[3], o[4], o[5])
    \/ \E o \in LedgerTrades : sell_stock(o[1], o[2], o[3], o[4], o[5])
    \/ \E tx \in Recorded : add_transaction(tx)

SpecLedger == InitPortfolio /\ [][NextLedger]_vars

-----------------------------------------------------------------------------
(* Properties of the portfolio *)

\* the rows of an account, in the order they were recorded
RowsOf(account_id) ==
    SelectSeq(transaction, LAMBDA row : row.account_id = account_id)

\* the sum of the amounts of the rows of an account with the given type
AmountsOf(account_id, trade_type) ==
    LET rows == SelectSeq(RowsOf(account_id), LAMBDA row : row.trade_type = trade_type)
    IN SumSeq(List([k \in DOMAIN rows |-> rows[k].amount]))

\* C22: the current cash of every account is its cash at creation minus the
\* amounts of its BUY transactions plus the amounts of its SELL transactions,
\* whatever the fees and whatever is recorded for other accounts.
C22_CashLedger ==
    \A i \in DOMAIN account :
        account[i].current_cash =
            account[i].initial_capital - AmountsOf(account[i].id, BUY)
                                       + AmountsOf(account[i].id, SELL)

\* account 1 has bought with a fee and sold, account 2 has bought
C22_Witness ==
    /\ Len(account) = 2
    /\ Len(transaction) = MaxTransactions
    /\ \E k \in DOMAIN transaction :
           /\ transaction[k].account_id = 1
           /\ transaction[k].trade_type = BUY
           /\ transaction[k].fee > 0
    /\ AmountsOf(1, SELL) > 0
    /\ AmountsOf(2, BUY) > 0
    /\ account[1].current_cash # account[1].initial_capital
    /\ account[2].current_cash = account[2].initial_capital - AmountsOf(2, BUY)

\* the outcome of the most recent call, when it was the given call
Called(call) == position # None /\ Val(position).call = call
ThePosition == Val(position)

\* the rows of a symbol of an account by trade date, rows of one date in the
\* order they were recorded
History(account_id, symbol) ==
    SortedBy(SelectSeq(RowsOf(account_id), LAMBDA row : row.symbol = symbol),
             LAMBDA row : row.trade_date)

\* the shares bought and sold in a list of rows
SharesOf(rows, trade_type) ==
    LET of_type == SelectSeq(rows, LAMBDA row : row.trade_type = trade_type)
    IN SumSeq(List([k \in DOMAIN of_type |-> of_type[k].shares]))

\* C25: the stored cash of every account is at least 0 and the shares sold of
\* a symbol never exceed the shares bought, so get_account and
\* get_account_summary do not fail for an account that exists.
C25_Solvent ==
    /\ \A i \in DOMAIN account :
           /\ account[i].current_cash >= 0
           /\ ~get_account(account[i].id).raised
           /\ \A symbol \in Symbols :
                  SharesOf(History(account[i].id, symbol), SELL)
                      <= SharesOf(History(account[i].id, symbol), BUY)
    /\ (Called("get_account_summary")
        /\ \E i \in DOMAIN account : account[i].id = ThePosition.account_id)
           => ~ThePosition.result.raised

\* shares and cost after the stated steps: a BUY adds its shares and
\* amount + fee, a SELL of k shares removes k shares and k x (cost / shares)
\* (and leaves the cost alone when no shares are held)
RECURSIVE StatedTotals(_)
StatedTotals(rows) ==
    IF rows = <<>> THEN [shares |-> 0, cost |-> Frac(0, 1)]
    ELSE LET before == StatedTotals(DropLast(rows))
             tx == rows[Len(rows)]
         IN IF tx.trade_type = BUY
            THEN [shares |-> before.shares + tx.shares,
                  cost |-> FracAdd(before.cost, Frac(tx.amount + tx.fee, 1))]
            ELSE [shares |-> before.shares - tx.shares,
                  cost |-> IF before.shares <= 0 THEN before.cost
                           ELSE Ratio(before.cost.num * (before.shares - tx.shares),
                                      before.cost.den * before.shares)]

\* no SELL of the list sells more shares than are held when it comes
Covered(rows) ==
    \A k \in DOMAIN rows :
        rows[k].trade_type = SELL =>
            StatedTotals(SubSeq(rows, 1, k - 1)).shares >= rows[k].shares

\* the rows of a symbol in the list the repository returned to the call
FetchedOf(symbol) == SelectSeq(ThePosition.fetched, LAMBDA row : row.symbol = symbol)

\* the entries of a symbol in a list of positions
PositionsOf(positions, symbol) == SelectSeq(positions, LAMBDA pos : pos.symbol = symbol)

\* a list of positions shows a symbol as the stated steps leave it
AsStatedFor(positions, rows, symbol) ==
    LET stated == StatedTotals(rows)
        mine == PositionsOf(positions, symbol)
    IN IF stated.shares > 0
       THEN /\ Len(mine) = 1
            /\ mine[1].shares = stated.shares
            /\ FracEq(mine[1].cost_value, stated.cost)
            /\ FracEq(mine[1].avg_cost,
                      Ratio(stated.cost.num, stated.cost.den * stated.shares))
       ELSE mine = <<>>

\* C23: get_positions shows every symbol as the average-cost method leaves it
\* over the transactions in trade-date order: listed exactly when shares
\* remain, with the shares, the cost and the average cost of the stated
\* steps, for every symbol whose sales are covered by the shares held.
C23_AverageCost ==
    Called("get_positions") =>
        \A symbol \in Symbols :
            Covered(History(ThePosition.account_id, symbol)) =>
                /\ ~ThePosition.result.raised
                /\ AsStatedFor(Val(ThePosition.result.value),
                               History(ThePosition.account_id, symbol), symbol)

\* the trade dates of a list of rows are all different
DistinctDates(rows) ==
    \A j, k \in DOMAIN rows : j # k => rows[j].trade_date # rows[k].trade_date

\* the same for symbols with at most one transaction per trade date
C23_AverageCostDistinctDates ==
    Called("get_positions") =>
        \A symbol \in Symbols :
            (/\ Covered(History(ThePosition.account_id, symbol))
             /\ DistinctDates(History(ThePosition.account_id, symbol))) =>
                /\ FetchedOf(symbol) # <<>> =>
                       ~_calculate_position(symbol,
                            FetchedOf(symbol)).raised
                /\ ~ThePosition.result.raised =>
                       AsStatedFor(Val(ThePosition.result.value),
                                   History(ThePosition.account_id, symbol), symbol)

\* the rows with every trade date replaced by its rank among the dates of
\* the list counted in days, so that rows of one date fall on consecutive
\* dates in the order they were recorded
Spread(rows) ==
    List([k \in DOMAIN rows |-> [rows[k] EXCEPT !.trade_date = k]])

\* C26: the position of a symbol is the same for every order in which the
\* repository can return the transactions of one trade date, and it is the
\* position of the same transactions recorded on consecutive dates.
C26_OrderIndependent ==
    Called("get_positions") =>
        /\ \A other \in get_transactions(ThePosition.account_id, 10000) :
               get_positions_on(other) = ThePosition.result
        /\ \A symbol \in Symbols :
               History(ThePosition.account_id, symbol) # <<>> =>
                   _calculate_position(symbol, FetchedOf(symbol))
                       = _calculate_position(symbol,
                             Spread(History(ThePosition.account_id, symbol)))

-----------------------------------------------------------------------------
(* The alert engine, continued *)

\* C24: a scan emits no MACD_GOLDEN_CROSS alert for a series of fewer than
\* 26 bars, and it carries the check out from 26 bars on: a series of
\* exactly 26 bars on which the predicate is true, and false without the
\* last bar, gets its alert.
C24_CheckedFrom26 ==
    [][IsScanStep =>
        \A s \in Symbols :
            Scanned(scan', s) =>
                /\ Len(FrameOf(s)) < 26 =>
                       KindCount(Val(scan'.returned), s, "MACD_GOLDEN_CROSS") = 0
                /\ (Len(FrameOf(s)) = 26 /\ NewlyGolden(FrameOf(s))) =>
                       KindCount(Val(scan'.returned), s, "MACD_GOLDEN_CROSS") = 1]_vars

\* the part of it that holds: no alert below 26 bars
C24_SilentBelow26 ==
    [][IsScanStep =>
        \A s \in Symbols :
            (Scanned(scan', s) /\ Len(FrameOf(s)) < 26) =>
                KindCount(Val(scan'.returned), s, "MACD_GOLDEN_CROSS") = 0]_vars

-----------------------------------------------------------------------------
(* The MACD of the technical report *)

\* the MACD of the most recent report, when it has one
HasMacd == FullReport /\ Val(TheReport.indicators).macd # None
TheMacd == Val(Val(TheReport.indicators).macd)

-----------------------------------------------------------------------------
(* The summary of the fundamental report *)

TierFragments == {"excellent", "good", "fair", "weak"}

\* the fragment of the overall tier of a score
TierOf(overall_score) ==
    IF overall_score >= 80 THEN "excellent"
    ELSE IF overall_score >= 60 THEN "good"
    ELSE IF overall_score >= 40 THEN "fair"
    ELSE "weak"

\* C28: the summary of every full report begins with the fragment of the
\* tier of its overall score and holds no other tier fragment, so it is
\* never empty and never the fixed phrase for insufficient data.
C28_TierFirst ==
    Analyzed =>
        /\ TheAnalysis.summary # <<>>
        /\ TheAnalysis.summary # <<"insufficient_data">>
        /\ TheAnalysis.summary[1] = TierOf(TheAnalysis.overall_score)
        /\ Cardinality({k \in DOMAIN TheAnalysis.summary :
                           TheAnalysis.summary[k] \in TierFragments}) = 1

\* a report of a statement without figures: the tier fragment is the only
\* fragment of its summary
C28_Witness ==
    /\ Analyzed
    /\ TheAnalysis.overall_score = 50
    /\ TheAnalysis.summary = <<"fair">>

-----------------------------------------------------------------------------
(* Scans in which save_alert can raise *)

SaveFailures == 0..2

NextSave ==
    \/ \E fail \in Failures, save_fail \in SaveFailures : check_all(fail, save_fail)
    \/ \E step \in NewBarSteps :
           /\ today \notin DOMAIN daily_quote["A"]
           /\ today - 1 \in DOMAIN daily_quote["A"]
           /\ save_quotes("A", <<NewBar("A", step)>>)
    \/ NextDay

SaveLens == {27}
SaveShapes ==
    { Shape(0, 0, 0, None, 1, 1),         \* flat
      Shape(0, 0, 0, Some(12), 1, 1),     \* flat, then a jump of 6%
      Shape(0, 0, 1, Some(12), 1, 1) }    \* falling, then a jump
SaveThresholds == { <<None, None>>, <<Some(Base), Some(Base)>> }

InitSave ==
    /\ \E n \in SaveLens, sh \in SaveShapes :
           daily_quote = [s \in Symbols |->
                             IF s = "A" THEN GenTable(n, sh) ELSE OtherTable]
    /\ \E th \in SaveThresholds :
           watchlist = <<[symbol |-> "A", alert_price_high |-> th[1],
                          alert_price_low |-> th[2]],
                         [symbol |-> "B", alert_price_high |-> None,
                          alert_price_low |-> None]>>
    /\ alert = <<>>
    /\ today = FirstDay
    /\ now = 0
    /\ scan = NoScan
    /\ report = None
    /\ financial = NoStatements
    /\ stock_info = Listed
    /\ fundamental = None
    /\ screened = None
    /\ _strategies = StrategyRegistry
    /\ held = NothingHeld
    /\ account = NoAccounts
    /\ transaction = <<>>
    /\ position = None
    /\ scheduler = NoScheduler

SpecSave == InitSave /\ [][NextSave]_vars

\* C29: check_all persists the alerts of the list it built from all the
\* entries, each once and in list order: when it returns, the rows appended
\* to the alert table are the returned list; when save_alert raises for an
\* alert, the rows appended are the alerts before it, that alert and the
\* alerts after it are not persisted, and check_all raises and returns
\* nothing.
C29_SavedInOrder ==
    [][IsScanStep =>
        LET all_alerts == check_all_alerts(scan'.failed) IN
        IF scan'.raised
        THEN /\ scan'.returned = None
             /\ \E k \in DOMAIN all_alerts :
                    alert' = alert \o SubSeq(all_alerts, 1, k - 1)
        ELSE /\ scan'.returned = Some(all_alerts)
             /\ alert' = alert \o all_alerts]_vars

\* the first scan raised after one alert was persisted and before two
\* others were
C29_Witness ==
    /\ now = 1
    /\ scan.raised
    /\ scan.returned = None
    /\ Len(alert) = 1
    /\ Len(check_all_alerts(scan.failed)) >= 3

-----------------------------------------------------------------------------
(* DataScheduler.  scheduler.created lists the BackgroundScheduler objects
   the DataScheduler has constructed, in order of construction, each with
   its running flag and the ids of its jobs; scheduler.current is the one
   self._scheduler refers to.  scheduler.calls counts the start and stop
   calls made and scheduler.last names the latest.  The library object is
   modelled by what the calls made on it do: add_job with replace_existing
   keeps one job per id, start makes running true, shutdown makes it
   false.  The jobs _update_watchlist_quotes and _sync_daily_data read the
   watch list and write nothing.  *)

MaxCalls == 4           \* start and stop calls per behaviour

TheJobs == {"update_watchlist_quotes", "sync_daily_data", "check_alerts"}

BackgroundScheduler == [running |-> FALSE, jobs |-> {}]
add_job(s, id) == [s EXCEPT !.jobs = @ \cup {id}]
scheduler_start(s) == [s EXCEPT !.running = TRUE]
shutdown(s) == [s EXCEPT !.running = FALSE]

\* self._scheduler is not None and self._scheduler.running
IsRunning ==
    /\ scheduler.current # None
    /\ scheduler.created[Val(scheduler.current)].running

AfterCall(name) == [scheduler EXCEPT !.calls = @ + 1, !.last = Some(name)]

\* start without the test of a running scheduler
start_unguarded ==
    /\ scheduler.calls < MaxCalls
    /\ LET s == scheduler_start(
                    add_job(add_job(add_job(BackgroundScheduler,
                        "update_watchlist_quotes"), "sync_daily_data"),
                        "check_alerts"))
       IN scheduler' = [AfterCall("start") EXCEPT
                            !.created = Append(@, s),
                            !.current = Some(Len(scheduler.created) + 1)]
    /\ UNCHANGED <<daily_quote, watchlist, alert, today, now, scan, report,
                   financial, stock_info, fundamental, screened,
                   _strategies, held, account, transaction, position>>

\* DataScheduler.start
start ==
    /\ scheduler.calls < MaxCalls
    /\ IF IsRunning
       THEN scheduler' = AfterCall("start")
       ELSE LET s == scheduler_start(
                         add_job(add_job(add_job(BackgroundScheduler,
                             "update_watchlist_quotes"), "sync_daily_data"),
                             "check_alerts"))
            IN scheduler' = [AfterCall("start") EXCEPT
                                 !.created = Append(@, s),
                                 !.current = Some(Len(scheduler.created) + 1)]
    /\ UNCHANGED <<daily_quote, watchlist, alert, today, now, scan, report,
                   financial, stock_info, fundamental, screened,
                   _strategies, held, account, transaction, position>>

\* DataScheduler.stop
stop ==
    /\ scheduler.calls < MaxCalls
    /\ IF scheduler.current = None
       THEN scheduler' = AfterCall("stop")
       ELSE IF ~ scheduler.created[Val(scheduler.current)].running
       THEN scheduler' = AfterCall("stop")
       ELSE scheduler' = [AfterCall("stop") EXCEPT
                              !.created[Val(scheduler.current)] = shutdown(@)]
    /\ UNCHANGED <<daily_quote, watchlist, alert, today, now, scan, report,
                   financial, stock_info, fundamental, screened,
                   _strategies, held, account, transaction, position>>

\* DataScheduler._check_alerts, the job a running scheduler fires: an
\* exception of check_all is logged and goes no further
_check_alerts(fail, save_fail) ==
    /\ \E i \in DOMAIN scheduler.created :
           /\ scheduler.created[i].running
           /\ "check_alerts" \in scheduler.created[i].jobs
    /\ check_all(fail, save_fail)

NextScheduler ==
    \/ start
    \/ stop
    \/ \E fail \in Failures, save_fail \in SaveFailures :
           _check_alerts(fail, save_fail)

SpecScheduler == InitSave /\ [][NextScheduler]_vars

RunningOnes == {i \in DOMAIN scheduler.created : scheduler.created[i].running}

IsCall(name) ==
    /\ scheduler'.calls = scheduler.calls + 1
    /\ scheduler'.last = Some(name)

SameSchedulers ==
    /\ scheduler'.created = scheduler.created
    /\ scheduler'.current = scheduler.current

\* C30: after any sequence of start and stop calls at most one of the
\* schedulers the object created is running, it is the one the object
\* refers to, and a running scheduler has exactly the three jobs
\* update_watchlist_quotes, sync_daily_data and check_alerts; start while
\* running changes nothing, stop before any start or after a stop changes
\* nothing, and a start when none is running (after a stop too) leaves a
\* running scheduler
C30_OneRunning ==
    /\ [](/\ Cardinality(RunningOnes) <= 1
          /\ \A i \in RunningOnes :
                 /\ scheduler.current = Some(i)
                 /\ scheduler.created[i].jobs = TheJobs)
    /\ [][(IsCall("start") /\ IsRunning) => SameSchedulers]_vars
    /\ [][(IsCall("stop") /\ ~ IsRunning) => SameSchedulers]_vars
    /\ [][IsCall("start") => Cardinality(RunningOnes') = 1]_vars
    /\ [][IsCall("stop") => RunningOnes' = {}]_vars

\* start, stop, start again and a start while running: the second
\* scheduler runs with the three jobs, the first is stopped
C30_Witness ==
    /\ scheduler.calls = MaxCalls
    /\ scheduler.last = Some("start")
    /\ Len(scheduler.created) = 2
    /\ ~ scheduler.created[1].running
    /\ scheduler.created[2].running
    /\ scheduler.created[2].jobs = TheJobs
    /\ scheduler.current = Some(2)

====
